---- MODULE Spec2Model ----
(***************************************************************************)
(* Accessibility registry and event bridge (AccessibilityController and    *)
(* its collaborators).  The controller keeps a table of registered items,  *)
(* a list of top-level children, the focus state and a pending             *)
(* announcement, and turns changes into accessibility events that go to an *)
(* internal channel and to the platform.                                   *)
(*                                                                         *)
(* The repository holds two copies of the controller (the two halves of    *)
(* src/unnamed/part_000).  unreg, announce and the focus helpers are the   *)
(* same in both.  The second copy subscribes to the items' notification    *)
(* streams and to the action dispatcher and hands the controller to the    *)
(* wrappers; the first copy does none of this, and its repeat operation    *)
(* reads the Qt focus object.  The variable `copy' says which one is       *)
(* built: the runs about notifications and commands are runs of the second *)
(* copy, the runs about wrapper texts and speech are runs of either.       *)
(***************************************************************************)
EXTENDS Integers, Sequences, FiniteSets, TLC

\* ------------------------------------------------------------------ bounds
\* number of AccessibleObject wrappers that one run may create
MaxObjects == 3

\* ------------------------------------------------------------- the universe
\* the controller itself, registered as the root item (`this')
Root == "ctrl"
\* the items the application may register: "a" is a control directly under the
\* root, "b" stands for the persistent score element (which is ignored while
\* it has no engraving element) placed anywhere in the tree
Items == {"a", "b"}
ScoreItems == {"b"}
AllItems == Items \cup {Root}
\* a null IAccessible pointer
None == "none"
\* announcement texts; "" is the empty QString
Texts == {"", "t1"}

VARIABLES
    platformResolves,   \* whether an interface getter exists for the wrappers
    parentOf,           \* what accessibleParent() of each item reports
    itemFocused,        \* m_focused of each item (what setState tracks)
    itemIgnored,        \* accessibleIgnored() of each item
    m_enabled,
    m_inited,
    m_allItems,         \* QHash item -> Item {item, object, iface}
    m_children,         \* QList of top-level items
    m_lastFocused,
    m_pretendFocus,
    m_announcement,
    s_rootObject,       \* the root wrapper handed to the platform
    nextObj,            \* identity of the next wrapper `new' returns
    disposed,           \* wrappers that have been deleted
    subscribed,         \* items whose streams carry a controller callback
    trace,              \* what the last operation did, in order
    lastOp,             \* the last operation and its arguments
    prev,               \* the controller as it was before the last operation
    platform,           \* the operating system the controller is built for
    itemValue,          \* accessibleValue() of each item
    itemCursor,         \* accessibleCursorPosition() of each item
    created,            \* per item, the `created' events sent for it so far
    destroyed,          \* per item, the `destroyed' events sent for it so far
    initRuns,           \* how many times init() has run
    enabledRegs,        \* reg() calls made while enabled: 0, 1 or 2 for more
    parentAtReg,        \* per entry, what accessibleParent() was in reg()
    m_preDispatchFocus, \* the focused item the pre-dispatch hook saw
    m_preDispatchName,  \* and its name then
    itemName,           \* accessibleName() of each item
    cmd,                \* the command being dispatched, for the record
    wrapped,            \* role and states of the item a wrapper is asked about
    q,                  \* the platform's last query of that wrapper
    itemDescription,    \* accessibleDescription() of each item
    wired,              \* wrappers that hold a reference to the controller
    copy,               \* which copy of the controller's source is built
    overriding,         \* score items that give a screen-reader text of their own
    m_textToSpeech,     \* the controller's text-to-speech engine
    m_speech            \* the repeater's text-to-speech engine

\* the event ledger: history that only the runs of SpecLedger keep
ledger == <<created, destroyed, initRuns, enabledRegs, parentAtReg>>

\* what the items report about their content
itemData == <<itemValue, itemCursor>>

\* the wrapper under query
queried == <<wrapped, q, itemDescription, overriding>>

\* the two text-to-speech engines
engines == <<m_textToSpeech, m_speech>>

\* what only the runs with commands, queries or speech change
aside == <<itemName, cmd, queried, engines>>

vars == <<platformResolves, parentOf, itemFocused, itemIgnored, m_enabled, m_inited,
          m_allItems, m_children, m_lastFocused, m_pretendFocus,
          m_announcement, s_rootObject, nextObj,
          disposed, subscribed, trace, lastOp, prev,
          platform, itemValue, itemCursor,
          created, destroyed, initRuns, enabledRegs, parentAtReg,
          m_preDispatchFocus, m_preDispatchName, itemName, cmd,
          wrapped, q, itemDescription, wired, copy,
          overriding, m_textToSpeech, m_speech>>

\* ------------------------------------------------------- the Item struct
\* a default-constructed Item: all three pointers null
InvalidItem == [item |-> None, object |-> 0, iface |-> 0]

isValid(it) == it.item # None /\ it.object # 0

isUsable(it) == isValid(it) /\ ~itemIgnored[it.item]

\* ------------------------------------------- observers of the event channel
\* What a subscriber of eventSent() does when it receives an event: nothing,
\* or a call of reg or unreg for some item.
Quiet == [op |-> "none", item |-> None]

Reactions == {Quiet} \cup [op : {"reg", "unreg"}, item : Items]

\* --------------------------------------------- the controller as a record
\* `observer' is the reaction that the next event on the channel meets
Ctl ==
    [m_enabled |-> m_enabled, m_inited |-> m_inited,
     m_allItems |-> m_allItems, m_children |-> m_children,
     m_lastFocused |-> m_lastFocused, m_pretendFocus |-> m_pretendFocus,
     m_announcement |-> m_announcement,
     m_preDispatchFocus |-> m_preDispatchFocus,
     m_preDispatchName |-> m_preDispatchName,
     s_rootObject |-> s_rootObject, nextObj |-> nextObj,
     disposed |-> disposed, subscribed |-> subscribed, wired |-> wired,
     observer |-> Quiet, trace |-> <<>>]

\* findItem that returns it.value() without the constEnd() test: on a miss
\* it reads whatever entry the iterator happens to reach
findItem_NoEndCheck(c, aitem) ==
    IF aitem \in DOMAIN c.m_allItems THEN c.m_allItems[aitem]
    ELSE IF DOMAIN c.m_allItems = {} THEN InvalidItem
    ELSE c.m_allItems[CHOOSE k \in DOMAIN c.m_allItems : TRUE]

findItem(c, aitem) ==
    IF aitem \in DOMAIN c.m_allItems THEN c.m_allItems[aitem] ELSE InvalidItem

\* m_children.removeOne(x): drop the first occurrence of x
RECURSIVE removeOne(_, _)
removeOne(s, x) ==
    IF s = <<>> THEN <<>>
    ELSE IF Head(s) = x THEN Tail(s)
    ELSE <<Head(s)>> \o removeOne(Tail(s), x)

contains(s, x) == \E i \in 1..Len(s) : s[i] = x

\* the delivery of event ev to one sink, as the trace records it
Delivery(sink, ev) == [k |-> sink] @@ ev

\* sendEvent() that updates the platform before it sends on the channel
deliver_PlatformFirst(c, ev) ==
    [c EXCEPT !.trace = @ \o <<Delivery("platform", ev),
                               Delivery("channel", ev)>>]

\* the call that the observer makes, within send()
RECURSIVE react(_, _)

\* sendEvent(ev): m_eventSent.send(ev), which runs the observers before it
\* returns, then QAccessible::updateAccessibility(ev); every caller passes
\* the address of a local event, never null.  An observer reacts to one
\* event and is quiet during its own call.
deliver(c, ev) ==
    LET c1 == [c EXCEPT !.trace = Append(@, Delivery("channel", ev)),
                        !.observer = Quiet]
        c2 == IF c.observer = Quiet THEN c1 ELSE react(c1, c.observer)
    IN [c2 EXCEPT !.trace = Append(@, Delivery("platform", ev))]

\* QAccessibleEvent ev(obj, type); sendEvent(&ev)
sendEvent(c, type, obj) == deliver(c, [type |-> type, obj |-> obj])

\* an event of a subclass that carries a value (QAccessibleValueChangeEvent,
\* QAccessibleTextCursorEvent, QAccessibleTextInsertEvent, ...)
sendEventWith(c, type, obj, val) ==
    deliver(c, [type |-> type, obj |-> obj, val |-> val])

\* QAccessible::queryAccessibleInterface(object) goes through
\* muAccessibleFactory: the wrapper's class either has an interface getter
\* (the handle is then identified with the wrapper) or it has none (null)
queryAccessibleInterface(o) == IF platformResolves THEN o ELSE 0

\* regItem without the "Already registered" check
regItem_NoDupCheck(c, item) ==
    LET o  == c.nextObj
        it == [item |-> item, object |-> o, iface |-> queryAccessibleInterface(o)]
        c1 == [c EXCEPT
                 !.nextObj = o + 1,
                 !.m_allItems = (item :> it) @@ @,
                 !.m_children = IF parentOf[item] = Root
                                THEN Append(@, item) ELSE @,
                 !.subscribed = IF item # Root THEN @ \cup {item} ELSE @]
    IN sendEvent(c1, "ObjectCreated", o)

\* regItem as in the first version of the controller: no onReceive calls
regItem_NoSubscribe(c, item) ==
    IF isValid(findItem(c, item)) THEN c
    ELSE LET o  == c.nextObj
             it == [item |-> item, object |-> o, iface |-> queryAccessibleInterface(o)]
             c1 == [c EXCEPT
                      !.nextObj = o + 1,
                      !.m_allItems = (item :> it) @@ @,
                      !.m_children = IF parentOf[item] = Root
                                     THEN Append(@, item) ELSE @]
         IN sendEvent(c1, "ObjectCreated", o)

\* regItem that appends every item to m_children, whatever its parent
regItem_AppendsAlways(c, item) ==
    IF isValid(findItem(c, item)) THEN c
    ELSE LET o  == c.nextObj
             it == [item |-> item, object |-> o, iface |-> queryAccessibleInterface(o)]
             c1 == [c EXCEPT
                      !.nextObj = o + 1,
                      !.m_allItems = (item :> it) @@ @,
                      !.m_children = Append(@, item),
                      !.subscribed = IF item # Root
                                     THEN @ \cup {item} ELSE @]
         IN sendEvent(c1, "ObjectCreated", o)

\* the part of reg() after the enabled and init checks
\* reg() past its checks.  The first copy of the source neither hands the
\* controller to the wrapper nor subscribes to the item's streams; the
\* second copy does both.
regItem(c, item) ==
    IF isValid(findItem(c, item)) THEN c
    ELSE LET o  == c.nextObj
             it == [item |-> item, object |-> o, iface |-> queryAccessibleInterface(o)]
             c1 == [c EXCEPT
                      !.nextObj = o + 1,
                      !.wired = IF copy = 2 THEN @ \cup {o} ELSE @,
                      !.m_allItems = (item :> it) @@ @,
                      !.m_children = IF parentOf[item] = Root
                                     THEN Append(@, item) ELSE @,
                      !.subscribed = IF item # Root /\ copy = 2
                                     THEN @ \cup {item} ELSE @]
         IN sendEvent(c1, "ObjectCreated", o)

\* init(): registers the controller as root and hands its wrapper to Qt
init(c) ==
    LET c0 == [c EXCEPT !.trace = Append(@, [k |-> "init", type |-> "init",
                                             obj |-> 0])]
        c1 == regItem(c0, Root)
    IN [c1 EXCEPT !.s_rootObject = findItem(c1, Root).object]

\* reg with the one-time initialization ahead of the enabled check
reg_InitBeforeEnabledCheck(c, item) ==
    LET c1 == IF ~c.m_inited
              THEN init([c EXCEPT !.m_inited = TRUE])
              ELSE c
    IN IF ~c.m_enabled THEN c1 ELSE regItem(c1, item)

\* reg that runs init() whether or not m_inited is set
reg_InitAlways(c, item) ==
    IF ~c.m_enabled THEN c
    ELSE regItem(init([c EXCEPT !.m_inited = TRUE]), item)

reg(c, item) ==
    IF ~c.m_enabled THEN c
    ELSE LET c1 == IF ~c.m_inited
                   THEN init([c EXCEPT !.m_inited = TRUE])
                   ELSE c
         IN regItem(c1, item)

\* the steps of unreg(), in the order of the code
\* Item item = m_allItems.take(aitem): the entry leaves the table
takeItem(c, aitem) ==
    [c EXCEPT !.m_allItems = [k \in (DOMAIN @) \ {aitem} |-> @[k]]]

clearLastFocused(c, item) ==
    IF item.item = c.m_lastFocused THEN [c EXCEPT !.m_lastFocused = None] ELSE c

clearPretendFocus(c, item) ==
    IF item.item = c.m_pretendFocus THEN [c EXCEPT !.m_pretendFocus = None]
    ELSE c

removeChild(c, aitem) ==
    IF contains(c.m_children, aitem)
    THEN [c EXCEPT !.m_children = removeOne(@, aitem)] ELSE c

sendDestroyed(c, item) == sendEvent(c, "ObjectDestroyed", item.object)

\* delete item.object
deleteObject(c, item) ==
    [c EXCEPT !.disposed = @ \cup {item.object},
              !.trace = Append(@, [k |-> "dispose", type |-> "delete",
                                   obj |-> item.object])]

\* unreg that reads the entry without taking it out of the table
unreg_KeepsEntry(c, aitem) ==
    LET item == findItem(c, aitem)
    IN IF aitem = None \/ ~isValid(item) THEN c
       ELSE deleteObject(sendDestroyed(removeChild(clearPretendFocus(
                clearLastFocused(c, item), item), aitem), item), item)

\* unreg without the isValid() early return
unreg_NoValidCheck(c, aitem) ==
    LET item == findItem(c, aitem)
    IN IF aitem = None THEN c
       ELSE deleteObject(sendDestroyed(removeChild(clearPretendFocus(
                clearLastFocused(takeItem(c, aitem), item), item), aitem),
                item), item)

\* unreg that leaves m_lastFocused alone
unreg_KeepsLastFocused(c, aitem) ==
    LET item == findItem(c, aitem)
    IN IF aitem = None \/ ~isValid(item) THEN c
       ELSE deleteObject(sendDestroyed(removeChild(clearPretendFocus(
                takeItem(c, aitem), item), aitem), item), item)

\* unreg that leaves m_pretendFocus alone
unreg_KeepsPretendFocus(c, aitem) ==
    LET item == findItem(c, aitem)
    IN IF aitem = None \/ ~isValid(item) THEN c
       ELSE deleteObject(sendDestroyed(removeChild(clearLastFocused(
                takeItem(c, aitem), item), aitem), item), item)

\* unreg that deletes the wrapper before it sends the destroyed event
unreg_DeleteFirst(c, aitem) ==
    LET item == findItem(c, aitem)
    IN IF aitem = None \/ ~isValid(item) THEN c
       ELSE sendDestroyed(deleteObject(removeChild(clearPretendFocus(
                clearLastFocused(takeItem(c, aitem), item), item), aitem),
                item), item)

\* unreg that deletes the wrapper without sending the destroyed event
unreg_NoDestroyedEvent(c, aitem) ==
    LET item == findItem(c, aitem)
    IN IF aitem = None \/ ~isValid(item) THEN c
       ELSE deleteObject(removeChild(clearPretendFocus(
                clearLastFocused(takeItem(c, aitem), item), item), aitem),
                item)

unreg(c, aitem) ==
    LET item == findItem(c, aitem)
    IN IF aitem = None \/ ~isValid(item) THEN c
       ELSE deleteObject(sendDestroyed(removeChild(clearPretendFocus(
                clearLastFocused(takeItem(c, aitem), item), item), aitem),
                item), item)

react(c, reaction) ==
    IF reaction.op = "reg" THEN reg(c, reaction.item)
    ELSE IF reaction.op = "unreg" THEN unreg(c, reaction.item)
    ELSE c

\* a revoicing policy that always asks for revoicing
needsRevoicing_Always(iface, eventType) == TRUE

needsRevoicing(iface, eventType) == FALSE

triggerRevoicing(c, current) ==
    LET c1 == [c EXCEPT !.trace = Append(@, [k |-> "revoicing",
                                             type |-> "triggerRevoicing",
                                             obj |-> current.object])]
    IN IF current.object = 0 THEN c1
       ELSE sendEvent(c1, "NameChanged", current.object)

\* announce without the isEmpty() half of the early return
announce_NoEmptyCheck(c, announcement) ==
    LET c1 == [c EXCEPT !.m_announcement = announcement]
        focused == findItem(c1, c1.m_lastFocused)
    IN IF c1.m_lastFocused = None THEN c1
       ELSE IF ~isValid(focused) THEN c1
       ELSE sendEvent(c1, "NameChanged", focused.object)

\* announce that stores the text only once it is past the early return
announce_StoresAfterReturn(c, announcement) ==
    LET focused == findItem(c, c.m_lastFocused)
    IN IF c.m_lastFocused = None \/ announcement = "" THEN c
       ELSE IF ~isValid(focused) THEN c
       ELSE sendEvent([c EXCEPT !.m_announcement = announcement],
                      "NameChanged", focused.object)

announce(c, announcement) ==
    LET c1 == [c EXCEPT !.m_announcement = announcement]
        focused == findItem(c1, c1.m_lastFocused)
    IN IF c1.m_lastFocused = None \/ announcement = "" THEN c1
       ELSE IF ~isValid(focused) THEN c1
       ELSE IF focused.iface # 0
               /\ needsRevoicing(focused.iface, "NameChanged")
            THEN triggerRevoicing(c1, focused)
       ELSE sendEvent(c1, "NameChanged", focused.object)

lastFocused(c) == c.m_lastFocused

setExternalFocus(c, other) ==
    IF ~isUsable(other) THEN c
    ELSE [c EXCEPT !.m_lastFocused = other.item]

\* restoreFocus that hands the pretend-focus target over without asking
\* isUsable(): an ignored or vanished target becomes lastFocused
restoreFocus_NoUsableCheck(c) ==
    IF c.m_pretendFocus = None THEN c
    ELSE [c EXCEPT !.m_lastFocused = c.m_pretendFocus,
                   !.m_pretendFocus = None]

restoreFocus(c) ==
    IF c.m_pretendFocus = None THEN c
    ELSE LET item == findItem(c, c.m_pretendFocus)
         IN IF ~isUsable(item) THEN [c EXCEPT !.m_pretendFocus = None]
            ELSE [setExternalFocus(c, item) EXCEPT !.m_pretendFocus = None]

\* a state-changed notification arriving at the controller
stateChanged(c, item, state, arg) ==
    LET it == findItem(c, item)
    IN IF ~isValid(it) THEN c
       ELSE LET c1 == IF state = "Focused" /\ arg
                      THEN [c EXCEPT !.m_lastFocused = item] ELSE c
            IN sendEvent(c1, "StateChanged", it.object)

\* a request to report the focus on `item', a registered item other than the
\* focused one, until the restoration timer fires
pretendFocusRequest(c, item) ==
    IF ~isValid(findItem(c, item)) \/ item = c.m_lastFocused THEN c
    ELSE [c EXCEPT !.m_pretendFocus = item]

\* ------------------------- the controller's own IAccessible implementation
\* (the root item).  A QVariant is written as a string, "" the invalid one.
rootAccessibleParent == None

\* a child count taken from the entry table instead of the top-level list
rootAccessibleChildCount_AllEntries(c) == Cardinality(DOMAIN c.m_allItems)

rootAccessibleChildCount(c) == Len(c.m_children)

\* accessibleChild(i), i counted from 0
rootAccessibleChild(c, i) ==
    IF i >= Len(c.m_children) THEN None ELSE c.m_children[i + 1]

rootAccessibleRole == "Application"

rootAccessibleName == "MuseScore"

rootAccessibleDescription == ""

rootAccessibleState(c, st) ==
    IF st = "Enabled" THEN c.m_enabled
    ELSE IF st = "Active" THEN TRUE
    ELSE FALSE

\* the value and text operations: each returns what the code returns, the
\* ones with out-parameters as <<result, start, end>>
rootValueAndText ==
    [accessibleValue |-> "", accessibleMaximumValue |-> "",
     accessibleMinimumValue |-> "", accessibleValueStepSize |-> "",
     accessibleSelection |-> <<0, 0>>, accessibleSelectionCount |-> 0,
     accessibleCursorPosition |-> 0, accessibleText |-> "",
     accessibleTextBeforeOffset |-> <<"", 0, 0>>,
     accessibleTextAfterOffset |-> <<"", 0, 0>>,
     accessibleTextAtOffset |-> <<"", 0, 0>>,
     accessibleCharacterCount |-> 0, accessibleRowIndex |-> 0]

\* ----------------------------------------- tree navigation for the wrappers
\* the order in which an item lists the items placed under it
Siblings == <<"a", "b">>

\* item->accessibleChildCount() and item->accessibleChild(i), i from 0: the
\* root answers from m_children, another item lists the items under it
accessibleChildCount(c, item) ==
    IF item = Root THEN rootAccessibleChildCount(c)
    ELSE Len(SelectSeq(Siblings, LAMBDA y : parentOf[y] = item))

accessibleChild(c, item, i) ==
    IF item = Root THEN rootAccessibleChild(c, i)
    ELSE LET under == SelectSeq(Siblings, LAMBDA y : parentOf[y] = item)
         IN IF i >= Len(under) THEN None ELSE under[i + 1]

\* ch->accessibleState(State::Focused)
accessibleStateFocused(c, ch) ==
    IF ch = Root THEN rootAccessibleState(c, "Focused") ELSE itemFocused[ch]

parentIface(c, item) ==
    IF item = None THEN 0
    ELSE LET parent == parentOf[item]
         IN IF parent = None THEN 0 ELSE findItem(c, parent).iface

childCount(c, item) ==
    IF item # None THEN accessibleChildCount(c, item) ELSE 0

child(c, item, i) ==
    IF item = None THEN 0
    ELSE LET ch == accessibleChild(c, item, i)
         IN IF ch = None THEN 0 ELSE findItem(c, ch).iface

\* the first i of the loop that returns, or -1
indexOfChild(c, item, iface) ==
    IF item = None \/ iface = 0 THEN -1
    ELSE LET hits == {i \in 0..(accessibleChildCount(c, item) - 1) :
                        /\ accessibleChild(c, item, i) # None
                        /\ findItem(c, accessibleChild(c, item, i)).iface
                               = iface}
         IN IF hits = {} THEN -1
            ELSE CHOOSE i \in hits : \A j \in hits : i <= j

\* focusedChild that passes over the focused children without an entry
focusedChild_FirstWithEntry(c, item) ==
    IF item = None THEN 0
    ELSE LET hits == {i \in 0..(accessibleChildCount(c, item) - 1) :
                        /\ accessibleChild(c, item, i) # None
                        /\ accessibleStateFocused(
                               c, accessibleChild(c, item, i))
                        /\ isValid(findItem(c, accessibleChild(c, item, i)))}
         IN IF hits = {} THEN 0
            ELSE findItem(c, accessibleChild(c, item,
                     CHOOSE i \in hits : \A j \in hits : i <= j)).iface

focusedChild(c, item) ==
    IF item = None THEN 0
    ELSE LET hits == {i \in 0..(accessibleChildCount(c, item) - 1) :
                        /\ accessibleChild(c, item, i) # None
                        /\ accessibleStateFocused(
                               c, accessibleChild(c, item, i))}
         IN IF hits = {} THEN 0
            ELSE findItem(c, accessibleChild(c, item,
                     CHOOSE i \in hits : \A j \in hits : i <= j)).iface

\* ------------------ the wrapper's interface, AccessibleItemInterface: tree
\* The wrapper of item x answers the platform's tree queries without asking
\* the controller: no parent, no children, no index, no focused child.

wrapperParent(c, x) == 0

wrapperChildCount(c, x) == 0

wrapperChild(c, x, i) == 0

wrapperIndexOfChild(c, x, iface) == -1

wrapperFocusChild(c, x) == 0

\* ------------- the wrapper's interface: state, role and interface casting
\* IAccessible::Role, and "Other" for a value outside the enumeration
Roles == {"NoRole", "Application", "Dialog", "Panel", "StaticText",
          "SilentRole", "EditableText", "Button", "CheckBox", "RadioButton",
          "ComboBox", "List", "ListItem", "MenuItem", "SpinBox", "Range",
          "Group", "Information", "ElementOnScore", "Other"}

\* the items a wrapper may wrap: a role and what accessibleState() answers
WrappedItems ==
    [role : Roles, Enabled : BOOLEAN, Focused : BOOLEAN, Active : BOOLEAN,
     Selected : BOOLEAN, Checked : BOOLEAN]

StockItem ==
    [role |-> "NoRole", Enabled |-> TRUE, Focused |-> FALSE,
     Active |-> FALSE, Selected |-> FALSE, Checked |-> FALSE]

\* a default-constructed QAccessible::State, the flags state() deals with
NoFlags ==
    [invalid |-> FALSE, disabled |-> FALSE, invisible |-> FALSE,
     active |-> FALSE, focusable |-> FALSE, focused |-> FALSE,
     checkable |-> FALSE, checked |-> FALSE, selectable |-> FALSE,
     selected |-> FALSE]

\* the switch of state() over the role
stateOfRole(w, st) ==
    LET focus == [st EXCEPT !.focusable = TRUE, !.focused = w.Focused]
    IN CASE w.role \in {"NoRole", "Other"} -> st
         [] w.role = "Application" -> [st EXCEPT !.active = TRUE]
         [] w.role \in {"Dialog", "Panel", "List"} ->
                [st EXCEPT !.active = w.Active]
         [] w.role \in {"RadioButton", "CheckBox"} ->
                [focus EXCEPT !.checkable = TRUE, !.checked = w.Checked]
         [] w.role = "ListItem" ->
                [focus EXCEPT !.selectable = TRUE, !.selected = w.Selected]
         [] OTHER -> focus

\* state() without the early return of a disabled item
state_NoDisabledReturn(w) ==
    stateOfRole(w, [NoFlags EXCEPT !.disabled = ~w.Enabled,
                                   !.invisible = ~w.Enabled])

\* state() that gives the check box the case of the button
state_CheckBoxAsButton(w) ==
    LET st == [NoFlags EXCEPT !.disabled = ~w.Enabled,
                              !.invisible = ~w.Enabled]
    IN IF st.disabled THEN st
       ELSE stateOfRole(IF w.role = "CheckBox"
                        THEN [w EXCEPT !.role = "Button"] ELSE w, st)

state(w) ==
    LET st == [NoFlags EXCEPT !.disabled = ~w.Enabled,
                              !.invisible = ~w.Enabled]
    IN IF st.disabled THEN st ELSE stateOfRole(w, st)

\* role(): the QAccessible::Role of the item's role, per build
role(w) ==
    CASE w.role = "Panel" ->
            IF platform = "win" THEN "StaticText" ELSE "Pane"
      [] w.role = "SilentRole" ->
            IF platform = "mac" THEN "StaticText" ELSE "ListItem"
      [] w.role = "Range" -> "Slider"
      [] w.role \in {"Group", "Information", "ElementOnScore"} ->
            IF platform = "win" THEN "StaticText" ELSE "UserRole"
      [] w.role = "Other" -> "NoRole"
      [] OTHER -> w.role

\* QAccessible::InterfaceType values the platform may ask for
InterfaceTypes == {"TextInterface", "ValueInterface", "TableCellInterface",
                   "ActionInterface", "TableInterface"}

\* interface_cast that hands the table-cell interface to every role
interface_cast_AnyRoleIsCell(w, type) ==
    IF type = "ValueInterface" /\ role(w) = "Slider"
    THEN "QAccessibleValueInterface"
    ELSE IF type = "TextInterface" THEN "QAccessibleTextInterface"
    ELSE IF \/ type = "TableCellInterface"
            \/ platform = "win" /\ type = "ActionInterface"
         THEN "QAccessibleTableCellInterface"
    ELSE "nullptr"

\* interface_cast(type): which of the wrapper's interfaces is returned
interface_cast(w, type) ==
    IF type = "ValueInterface" /\ role(w) = "Slider"
    THEN "QAccessibleValueInterface"
    ELSE IF type = "TextInterface" THEN "QAccessibleTextInterface"
    ELSE LET isListType == \/ type = "TableCellInterface"
                           \/ platform = "win" /\ type = "ActionInterface"
         IN IF isListType /\ role(w) = "ListItem"
            THEN "QAccessibleTableCellInterface"
            ELSE "nullptr"

\* -------------------------------- the wrapper's interface: name and text
Names == {"n1", "n2"}

\* item->accessibleName(); the controller's own name is fixed
accessibleName(x) == IF x = Root THEN rootAccessibleName ELSE itemName[x]

Descriptions == {"", "d1", "N1"}

\* item->accessibleDescription(); the controller's own is empty
accessibleDescription(x) ==
    IF x = Root THEN rootAccessibleDescription ELSE itemDescription[x]

\* name.contains(desc, Qt::CaseInsensitive), over Names and Descriptions
containsCaseInsensitive(name, desc) ==
    desc = "" \/ (name = "n1" /\ desc = "N1")

\* m_object->controller().lock(): the controller, if reg() handed it over
controllerLocks(c, x) == findItem(c, x).object \in c.wired

\* never set in this version: it starts false and is only ever reset
needToVoicePanelInfo(c) == FALSE

\* item->accessibleRole() of the items of the runs
accessibleRole(x) ==
    IF x = Root THEN rootAccessibleRole
    ELSE IF x \in ScoreItems THEN "ElementOnScore" ELSE "Panel"

\* panel(item): the nearest of item and its ancestors with the Panel role
RECURSIVE panelFrom(_, _)
panelFrom(item, fuel) ==
    IF item = None \/ fuel = 0 THEN None
    ELSE IF accessibleRole(item) = "Panel" THEN item
    ELSE panelFrom(parentOf[item], fuel - 1)

panel(item) == panelFrom(item, Cardinality(AllItems))

currentPanelAccessibleName(c) ==
    IF panel(c.m_lastFocused) = None THEN ""
    ELSE accessibleName(panel(c.m_lastFocused))

\* AccessibleItemInterface::announcement() of the wrapper of x
wrapperAnnouncement(c, x) ==
    IF controllerLocks(c, x) /\ x = lastFocused(c)
    THEN c.m_announcement ELSE ""

\* AccessibleItemInterface::description() of the wrapper of x
wrapperDescription(x) ==
    LET desc == accessibleDescription(x)
    IN IF desc = "" \/ containsCaseInsensitive(accessibleName(x), desc)
       THEN "" ELSE desc

QTextTypes == {"Name", "Description", "Accelerator"}

\* text(Name) that joins the description on with ", " on every build and
\* whether or not there is one
wrapperText_AlwaysJoins(c, x, textType) ==
    IF textType = "Name"
    THEN IF wrapperAnnouncement(c, x) # "" THEN wrapperAnnouncement(c, x)
         ELSE accessibleName(x) \o ", " \o wrapperDescription(x)
    ELSE ""

\* AccessibleItemInterface::text(textType) of the wrapper of x
wrapperText(c, x, textType) ==
    IF textType = "Name"
    THEN LET ann == wrapperAnnouncement(c, x)
             desc == wrapperDescription(x)
             name == IF platform = "mac" /\ desc # ""
                     THEN accessibleName(x) \o ", " \o desc
                     ELSE accessibleName(x)
         IN IF ann # "" THEN ann
            ELSE IF /\ controllerLocks(c, x)
                    /\ x = lastFocused(c)
                    /\ needToVoicePanelInfo(c)
                    /\ currentPanelAccessibleName(c) # ""
                 THEN currentPanelAccessibleName(c) \o " panel, " \o name
                 ELSE name
    ELSE IF \/ platform = "win" /\ textType = "Accelerator"
            \/ platform = "linux" /\ textType = "Description"
         THEN IF wrapperAnnouncement(c, x) # "" THEN ""
              ELSE wrapperDescription(x)
    ELSE ""

\* ------------------------------------------------------- repeating by voice
\* parts.join(sep) of the parts that are not empty
RECURSIVE joinNonEmpty(_, _)
joinNonEmpty(parts, sep) ==
    IF parts = <<>> THEN ""
    ELSE LET rest == joinNonEmpty(Tail(parts), sep)
         IN IF Head(parts) = "" THEN rest
            ELSE IF rest = "" THEN Head(parts)
            ELSE Head(parts) \o sep \o rest

\* item->accessibleValue().toString()
accessibleValue(x) == IF x = Root THEN "" ELSE itemValue[x]

\* accessibleScreenReaderInfo() and accessibleExtraInfo(): the score element
\* of the source answers them with what it gives as name and description; an
\* item that does not override them answers with the empty string
accessibleScreenReaderInfo(x) ==
    IF x \in overriding THEN accessibleName(x) ELSE ""

accessibleExtraInfo(x) ==
    IF x \in overriding THEN accessibleDescription(x) ELSE ""

\* parts.join(sep) of all the parts, the empty ones included
RECURSIVE joinAll(_, _)
joinAll(parts, sep) ==
    IF parts = <<>> THEN ""
    ELSE IF Len(parts) = 1 THEN Head(parts)
    ELSE Head(parts) \o sep \o joinAll(Tail(parts), sep)

\* buildSpokenDescriptionFor that appends every part, empty or not
buildSpokenDescriptionFor_JoinsAll(acc) ==
    IF acc = None THEN "No element focused"
    ELSE LET val == accessibleValue(acc)
         IN IF /\ accessibleRole(acc) = "ElementOnScore"
               /\ (accessibleScreenReaderInfo(acc) # ""
                      \/ accessibleExtraInfo(acc) # "")
            THEN joinAll(<<accessibleScreenReaderInfo(acc),
                           accessibleExtraInfo(acc)>>, "; ")
            ELSE joinAll(<<accessibleName(acc), accessibleDescription(acc),
                           "value: " \o val>>, ", ")

buildSpokenDescriptionFor(acc) ==
    IF acc = None THEN "No element focused"
    ELSE LET score == IF accessibleRole(acc) = "ElementOnScore"
                      THEN joinNonEmpty(<<accessibleScreenReaderInfo(acc),
                                          accessibleExtraInfo(acc)>>, "; ")
                      ELSE ""
             val == accessibleValue(acc)
             generic == joinNonEmpty(
                            <<accessibleName(acc), accessibleDescription(acc),
                              IF val = "" THEN "" ELSE "value: " \o val>>,
                            ", ")
         IN IF score # "" THEN score
            ELSE IF generic = "" THEN "Unknown element"
            ELSE generic

\* what QGuiApplication::focusObject() gives through its Qt interface as
\* Name, Description and Value; all empty when there is no such object
QtFocusTexts ==
    {[name |-> "", descr |-> "", value |-> ""],
     [name |-> "OK", descr |-> "", value |-> ""],
     [name |-> "OK", descr |-> "tip", value |-> ""]}

\* QTextToSpeech::state()
Engines == {"Ready", "Speaking", "Error"}

\* say(text) whatever the engine is doing
say_NeverStops(c, engine, utterance) ==
    [c EXCEPT !.trace = Append(@, [k |-> "say", type |-> utterance,
                                   obj |-> 0])]

\* stop() if the engine is speaking, then say(text)
say(c, engine, utterance) ==
    LET entry(k, t) == [k |-> k, type |-> t, obj |-> 0]
        c1 == IF engine = "Speaking"
              THEN [c EXCEPT !.trace = Append(@, entry("stop", ""))] ELSE c
    IN [c1 EXCEPT !.trace = Append(@, entry("say", utterance))]

\* AccessibilityController::repeatCurrentElementInfo(): the first copy
\* turns to the Qt focus object when there is nothing to say, the second
\* copy does not
repeatCurrentElementInfo(c, focusObj, engine) ==
    LET own == IF copy = 2 THEN buildSpokenDescriptionFor(c.m_lastFocused)
               ELSE IF c.m_lastFocused # None
                    THEN buildSpokenDescriptionFor(c.m_lastFocused) ELSE ""
        qt == IF copy = 1 /\ own = ""
              THEN joinNonEmpty(<<focusObj.name, focusObj.descr,
                                  focusObj.value>>, ", ")
              ELSE own
        textToSpeak == IF qt = "" THEN "No element focused" ELSE qt
    IN say(c, engine, textToSpeak)

\* never assigned after construction
m_repeatHotkeyEnabled == TRUE

\* the repeat key: F12 for the first copy of the source, R for the second
m_repeatHotkey == IF copy = 1 THEN "Key_F12" ELSE "Key_R"

\* the events offered to the filter: a null pointer, or a key event
NoEvent == [type |-> "none"]

KeyEvents ==
    [type : {"KeyPress", "KeyRelease"}, key : {"Key_F12", "Key_R"},
     isAutoRepeat : BOOLEAN, modifiers : {"NoModifier", "ShiftModifier"}]

\* eventFilter that does not look at the auto-repeat flag
eventFilter_AnyRepeat(c, event, focusObj, engine) ==
    IF ~m_repeatHotkeyEnabled \/ event = NoEvent THEN c
    ELSE IF /\ event.type = "KeyPress"
            /\ event.key = m_repeatHotkey
            /\ event.modifiers = "NoModifier"
         THEN repeatCurrentElementInfo(c, focusObj, engine)
    ELSE c

\* eventFilter(watched, event), for what it does to the controller
eventFilter(c, event, focusObj, engine) ==
    IF ~m_repeatHotkeyEnabled \/ event = NoEvent THEN c
    ELSE IF /\ event.type = "KeyPress"
            /\ ~event.isAutoRepeat
            /\ event.key = m_repeatHotkey
            /\ event.modifiers = "NoModifier"
         THEN repeatCurrentElementInfo(c, focusObj, engine)
    ELSE c

\* and for what it returns: the first copy consumes the repeat key, the
\* second copy never consumes an event
eventFilterReturns(event) ==
    /\ copy = 1
    /\ m_repeatHotkeyEnabled /\ event # NoEvent
    /\ event.type = "KeyPress"
    /\ ~event.isAutoRepeat
    /\ event.key = m_repeatHotkey
    /\ event.modifiers = "NoModifier"

\* AccessibilityRepeater::getCurrentElementInfo(), which reads the
\* controller's lastFocused()
getCurrentElementInfo(c) == buildSpokenDescriptionFor(lastFocused(c))

\* AccessibilityRepeater::repeatCurrentElement() with speak()
repeatCurrentElement(c, engine) ==
    LET info == getCurrentElementInfo(c)
    IN IF info = "" \/ engine = "Error" THEN c ELSE say(c, engine, info)

\* -------------------------------------------- property-changed notifications
Platforms == {"mac", "win", "linux"}

Properties == {"Undefined", "Parent", "Name", "Description", "Value",
               "TextCursor", "TextInsert", "TextRemove"}

\* the text of each item; the score element has none
itemText == [x \in Items |-> IF x \in ScoreItems THEN <<>> ELSE <<"h", "i">>]

\* IAccessible::TextRange values a text notification may carry
TextRanges == {[startPosition |-> 0, endPosition |-> 1],
               [startPosition |-> 1, endPosition |-> 2]}

\* it.item->accessibleText(start, end): the characters from start up to end
accessibleText(x, start, end) ==
    SubSeq(itemText[x], start + 1,
           IF end < Len(itemText[x]) THEN end ELSE Len(itemText[x]))

\* the #if chain that picks the event type of a Name or Description change
nameEventType(property) ==
    IF platform = "mac" THEN "NameChanged"
    ELSE IF platform = "win"
         THEN IF property = "Name" THEN "NameChanged"
              ELSE "AcceleratorChanged"
    ELSE IF property = "Name" THEN "NameChanged" ELSE "DescriptionChanged"

\* m_announcement.clear(), noted in the trace
clearAnnouncement(c) ==
    [c EXCEPT !.m_announcement = "",
              !.trace = Append(@, [k |-> "clear", type |-> "m_announcement",
                                   obj |-> 0])]

\* propertyChanged without the early return for Undefined: it falls through
\* to the generic event with etype still InvalidEvent
propertyChanged_UndefinedFallsThrough(c, item, property, value) ==
    LET it == findItem(c, item)
    IN IF ~isValid(it) THEN c
       ELSE IF property = "Undefined"
            THEN sendEvent(c, "InvalidEvent", it.object)
       ELSE IF property = "Parent"
            THEN sendEvent(c, "ParentChanged", it.object)
       ELSE IF property \in {"Name", "Description"}
            THEN sendEvent(IF item = c.m_lastFocused
                           THEN clearAnnouncement(c) ELSE c,
                           nameEventType(property), it.object)
       ELSE IF property = "Value"
            THEN sendEventWith(c, "ValueChanged", it.object, itemValue[it.item])
       ELSE IF property = "TextCursor"
            THEN sendEventWith(c, "TextCaretMoved", it.object,
                               itemCursor[it.item])
       ELSE sendEventWith(c, IF property = "TextInsert" THEN "TextInserted"
                             ELSE "TextRemoved", it.object,
                          <<value.startPosition,
                            accessibleText(it.item, value.startPosition,
                                           value.endPosition)>>)

\* propertyChanged that clears the announcement for every item
propertyChanged_ClearsAlways(c, item, property, value) ==
    LET it == findItem(c, item)
    IN IF ~isValid(it) \/ property = "Undefined" THEN c
       ELSE IF property = "Parent"
            THEN sendEvent(c, "ParentChanged", it.object)
       ELSE IF property \in {"Name", "Description"}
            THEN sendEvent(clearAnnouncement(c),
                           nameEventType(property), it.object)
       ELSE IF property = "Value"
            THEN sendEventWith(c, "ValueChanged", it.object, itemValue[it.item])
       ELSE IF property = "TextCursor"
            THEN sendEventWith(c, "TextCaretMoved", it.object,
                               itemCursor[it.item])
       ELSE sendEventWith(c, IF property = "TextInsert" THEN "TextInserted"
                             ELSE "TextRemoved", it.object,
                          <<value.startPosition,
                            accessibleText(it.item, value.startPosition,
                                           value.endPosition)>>)

\* propertyChanged that reports a parent change before it asks whether the
\* item has an entry
propertyChanged_LooksUpLate(c, item, property, value) ==
    LET it == findItem(c, item)
    IN IF property = "Undefined" THEN c
       ELSE IF property = "Parent"
            THEN sendEvent(c, "ParentChanged", it.object)
       ELSE IF ~isValid(it) THEN c
       ELSE IF property \in {"Name", "Description"}
            THEN LET c1 == IF item = c.m_lastFocused
                           THEN clearAnnouncement(c) ELSE c
                     etype == nameEventType(property)
                 IN IF it.iface # 0 /\ needsRevoicing(it.iface, etype)
                    THEN triggerRevoicing(c1, it)
                    ELSE sendEvent(c1, etype, it.object)
       ELSE IF property = "Value"
            THEN sendEventWith(c, "ValueChanged", it.object, itemValue[it.item])
       ELSE IF property = "TextCursor"
            THEN sendEventWith(c, "TextCaretMoved", it.object,
                               itemCursor[it.item])
       ELSE IF property = "TextInsert"
            THEN sendEventWith(c, "TextInserted", it.object,
                               <<value.startPosition,
                                 accessibleText(it.item, value.startPosition,
                                                value.endPosition)>>)
       ELSE sendEventWith(c, "TextRemoved", it.object,
                          <<value.startPosition,
                            accessibleText(it.item, value.startPosition,
                                           value.endPosition)>>)

\* propertyChanged(item, property, value).  m_needToVoicePanelInfo is false
\* from construction and this is its only assignment (to false), so it is
\* not a variable of the model.
propertyChanged(c, item, property, value) ==
    LET it == findItem(c, item)
    IN IF ~isValid(it) THEN c
       ELSE IF property = "Undefined" THEN c
       ELSE IF property = "Parent"
            THEN sendEvent(c, "ParentChanged", it.object)
       ELSE IF property \in {"Name", "Description"}
            THEN LET c1 == IF item = c.m_lastFocused
                           THEN clearAnnouncement(c) ELSE c
                     etype == nameEventType(property)
                 IN IF it.iface # 0 /\ needsRevoicing(it.iface, etype)
                    THEN triggerRevoicing(c1, it)
                    ELSE sendEvent(c1, etype, it.object)
       ELSE IF property = "Value"
            THEN sendEventWith(c, "ValueChanged", it.object, itemValue[it.item])
       ELSE IF property = "TextCursor"
            THEN sendEventWith(c, "TextCaretMoved", it.object,
                               itemCursor[it.item])
       ELSE IF property = "TextInsert"
            THEN sendEventWith(c, "TextInserted", it.object,
                               <<value.startPosition,
                                 accessibleText(it.item, value.startPosition,
                                                value.endPosition)>>)
       ELSE sendEventWith(c, "TextRemoved", it.object,
                          <<value.startPosition,
                            accessibleText(it.item, value.startPosition,
                                           value.endPosition)>>)

\* ------------------------------------------- the action-dispatch hook pair
\* init() leaves both callbacks on the dispatcher's streams, if there is one

\* what actionsRegister()->action(code) may return: a titled action, an
\* action whose translated title is empty, and the invalid action
Actions == {[valid |-> TRUE, title |-> "title"],
            [valid |-> TRUE, title |-> ""],
            [valid |-> FALSE, title |-> ""]}

\* a pre-dispatch callback that leaves the pending announcement in place
preDispatch_KeepsAnnouncement(c) ==
    [c EXCEPT !.m_preDispatchFocus = c.m_lastFocused,
              !.m_preDispatchName = IF c.m_lastFocused # None
                                    THEN accessibleName(c.m_lastFocused)
                                    ELSE ""]

preDispatch(c) ==
    [c EXCEPT !.m_preDispatchFocus = c.m_lastFocused,
              !.m_preDispatchName = IF c.m_lastFocused # None
                                    THEN accessibleName(c.m_lastFocused)
                                    ELSE "",
              !.m_announcement = ""]

\* a post-dispatch callback that does not compare with the snapshot
postDispatch_IgnoresSnapshot(c, action) ==
    IF c.m_lastFocused = None \/ c.m_announcement # "" THEN c
    ELSE IF ~action.valid THEN c
    ELSE IF action.title = "" THEN c
    ELSE announce(c, action.title)

postDispatch(c, action) ==
    IF c.m_lastFocused = None \/ c.m_announcement # "" THEN c
    ELSE IF \/ c.m_lastFocused # c.m_preDispatchFocus
            \/ accessibleName(c.m_lastFocused) # c.m_preDispatchName
         THEN c
    ELSE IF ~action.valid THEN c
    ELSE IF action.title = "" THEN c
    ELSE announce(c, action.title)

\* ------------------------------------------------------------------ steps
\* the controller becomes r, after operation op
Becomes(r, op) ==
    /\ m_enabled' = r.m_enabled
    /\ m_inited' = r.m_inited
    /\ m_allItems' = r.m_allItems
    /\ m_children' = r.m_children
    /\ m_lastFocused' = r.m_lastFocused
    /\ m_pretendFocus' = r.m_pretendFocus
    /\ m_announcement' = r.m_announcement
    /\ m_preDispatchFocus' = r.m_preDispatchFocus
    /\ m_preDispatchName' = r.m_preDispatchName
    /\ s_rootObject' = r.s_rootObject
    /\ nextObj' = r.nextObj
    /\ disposed' = r.disposed
    /\ subscribed' = r.subscribed
    /\ wired' = r.wired
    /\ copy' = copy
    /\ trace' = r.trace
    /\ lastOp' = op
    /\ prev' = Ctl

Op(name, item, text, arg) ==
    [op |-> name, item |-> item, text |-> text, arg |-> arg]

\* no command has been dispatched yet
NoCommand ==
    [open |-> FALSE, announced |-> FALSE, pending |-> "", focus |-> None,
     name |-> ""]

\* the controller and the items right after construction
Constructed ==
    /\ platformResolves \in BOOLEAN
    /\ parentOf = [ctrl |-> None, a |-> Root, b |-> "a"]
    /\ itemFocused = [x \in Items |-> FALSE]
    /\ itemIgnored = [x \in AllItems |-> FALSE]
    /\ m_enabled = TRUE
    /\ m_inited = FALSE
    /\ m_allItems = <<>>
    /\ m_children = <<>>
    /\ m_lastFocused = None
    /\ m_pretendFocus = None
    /\ m_announcement = ""
    /\ m_preDispatchFocus = None
    /\ m_preDispatchName = ""
    /\ s_rootObject = 0
    /\ nextObj = 1
    /\ disposed = {}
    /\ subscribed = {}
    /\ wired = {}
    /\ trace = <<>>
    /\ lastOp = Op("new", None, "", FALSE)
    /\ prev = Ctl
    /\ itemCursor = [x \in Items |-> 0]
    /\ created = [x \in AllItems |-> 0]
    /\ destroyed = [x \in AllItems |-> 0]
    /\ initRuns = 0
    /\ enabledRegs = 0
    /\ parentAtReg = <<>>
    /\ cmd = NoCommand

\* a QTextToSpeech engine with nothing to say
Idle == [state |-> "Ready", inFlight |-> 0]

\* the items of the runs as they mostly are: named, without a value, the
\* score element giving its name and description as screen-reader texts,
\* and both engines idle
Stock ==
    /\ itemName = [x \in Items |-> "n1"]
    /\ itemValue = [x \in Items |-> ""]
    /\ overriding = ScoreItems
    /\ m_textToSpeech = Idle /\ m_speech = Idle

\* no wrapper has been asked anything
NoQuery == [op |-> "none", arg |-> "", result |-> ""]

NoDescriptions == [x \in Items |-> ""]

Unqueried ==
    wrapped = StockItem /\ q = NoQuery /\ itemDescription = NoDescriptions

\* the build of the second copy of the controller's source, the one that
\* subscribes to the items and to the dispatcher
SecondCopy == copy = 2

\* no operation of Spec or SpecLedger reads the platform
Init ==
    Constructed /\ Stock /\ Unqueried /\ SecondCopy /\ platform = "linux"

Reg(x) ==
    LET r == reg(Ctl, x)
    IN /\ r.nextObj <= MaxObjects + 1
       /\ Becomes(r, Op("reg", x, "", FALSE))
       /\ UNCHANGED <<ledger, itemData, aside, platform, platformResolves,
                      parentOf, itemFocused, itemIgnored>>

Unreg(x) ==
    /\ Becomes(unreg(Ctl, x), Op("unreg", x, "", FALSE))
    /\ UNCHANGED <<ledger, itemData, aside, platform, platformResolves,
                   parentOf, itemFocused, itemIgnored>>

SetAccessibilityEnabled(b) ==
    /\ Becomes([Ctl EXCEPT !.m_enabled = b], Op("setEnabled", None, "", b))
    /\ UNCHANGED <<ledger, itemData, aside, platform, platformResolves,
                   parentOf, itemFocused, itemIgnored>>

Announce(t) ==
    /\ Becomes(announce(Ctl, t), Op("announce", None, t, FALSE))
    /\ UNCHANGED <<ledger, itemData, aside, platform, platformResolves,
                   parentOf, itemFocused, itemIgnored>>

\* IAccessible::setState(Focused, arg) of an item: it notifies only a change
SetState(x, arg) ==
    /\ itemFocused' = [itemFocused EXCEPT ![x] = arg]
    /\ Becomes(IF itemFocused[x] # arg /\ x \in subscribed
               THEN stateChanged(Ctl, x, "Focused", arg) ELSE Ctl,
               Op("setState", x, "Focused", arg))
    /\ UNCHANGED <<ledger, itemData, aside, platform, platformResolves,
                   parentOf, itemIgnored>>

\* updateFromSelection(elem, win): the item is ignored while elem is null
UpdateFromSelection(x, elemIsNull) ==
    /\ itemIgnored' = [itemIgnored EXCEPT ![x] = elemIsNull]
    /\ Becomes(Ctl, Op("updateFromSelection", x, "", elemIsNull))
    /\ UNCHANGED <<ledger, itemData, aside, platform, platformResolves,
                   parentOf, itemFocused>>

PretendFocusRequest(x) ==
    /\ Becomes(pretendFocusRequest(Ctl, x), Op("pretendFocus", x, "", FALSE))
    /\ UNCHANGED <<ledger, itemData, aside, platform, platformResolves,
                   parentOf, itemFocused, itemIgnored>>

\* the single-shot m_pretendFocusTimer fires (or restoreFocus() is called
\* directly): the callback installed by the constructor runs restoreFocus()
RestoreFocus ==
    /\ Becomes(restoreFocus(Ctl), Op("restoreFocus", None, "", FALSE))
    /\ UNCHANGED <<ledger, itemData, aside, platform, platformResolves,
                   parentOf, itemFocused, itemIgnored>>

Next ==
    \/ \E x \in AllItems : Reg(x)
    \/ \E x \in AllItems : Unreg(x)
    \/ \E b \in BOOLEAN : SetAccessibilityEnabled(b)
    \/ \E t \in Texts : Announce(t)
    \/ \E x \in Items, arg \in BOOLEAN : SetState(x, arg)
    \/ \E x \in ScoreItems, n \in BOOLEAN : UpdateFromSelection(x, n)
    \/ \E x \in Items : PretendFocusRequest(x)
    \/ RestoreFocus

Spec == Init /\ [][Next]_vars

\* ------------------------------------------------ runs that keep the ledger
\* the items whose entry in c holds the wrapper o
ownerOf(c, o) == {y \in DOMAIN c.m_allItems : c.m_allItems[y].object = o}

\* how many events of one type the trace tr holds for the wrapper that the
\* table of c gives item y (counted where they are emitted, on the channel)
EventCount(tr, type, c, y) ==
    Cardinality({i \in DOMAIN tr : /\ tr[i].k = "channel"
                                   /\ tr[i].type = type
                                   /\ y \in ownerOf(c, tr[i].obj)})

\* the ledger after an operation that took the controller from c to r: a
\* created event is for the item that holds the wrapper afterwards, a
\* destroyed event for the item that held it before
Records(c, r) ==
    /\ created' = [y \in AllItems |->
                      created[y] + EventCount(r.trace, "ObjectCreated", r, y)]
    /\ destroyed' = [y \in AllItems |->
                      destroyed[y] + EventCount(r.trace, "ObjectDestroyed", c, y)]
    /\ initRuns' = initRuns
                    + Cardinality({i \in DOMAIN r.trace : r.trace[i].k = "init"})
    /\ parentAtReg' = [y \in DOMAIN r.m_allItems |->
                          IF /\ y \in DOMAIN c.m_allItems
                             /\ c.m_allItems[y].object = r.m_allItems[y].object
                          THEN parentAtReg[y] ELSE parentOf[y]]

LedgerReg(x) ==
    LET r == reg(Ctl, x)
    IN /\ r.nextObj <= MaxObjects + 1
       /\ Becomes(r, Op("reg", x, "", FALSE))
       /\ Records(Ctl, r)
       /\ enabledRegs' = IF ~m_enabled THEN enabledRegs
                         ELSE IF enabledRegs = 0 THEN 1 ELSE 2
       /\ UNCHANGED <<itemData, aside, platform, platformResolves, parentOf,
                      itemFocused, itemIgnored>>

LedgerUnreg(x) ==
    LET r == unreg(Ctl, x)
    IN /\ Becomes(r, Op("unreg", x, "", FALSE))
       /\ Records(Ctl, r)
       /\ UNCHANGED <<enabledRegs, itemData, aside, platform, platformResolves,
                      parentOf, itemFocused, itemIgnored>>

LedgerSetAccessibilityEnabled(b) ==
    LET r == [Ctl EXCEPT !.m_enabled = b]
    IN /\ Becomes(r, Op("setEnabled", None, "", b))
       /\ Records(Ctl, r)
       /\ UNCHANGED <<enabledRegs, itemData, aside, platform, platformResolves,
                      parentOf, itemFocused, itemIgnored>>

\* the application moves item x under p; the item may announce the change on
\* its property-changed stream (Property::Parent, no value)
SetParent(x, p, notify) ==
    LET r == IF notify /\ x \in subscribed
             THEN propertyChanged(Ctl, x, "Parent", <<>>) ELSE Ctl
    IN /\ p # x
       /\ parentOf' = [parentOf EXCEPT ![x] = p]
       /\ Becomes(r, Op("setParent", x, p, notify))
       /\ Records(Ctl, r)
       /\ UNCHANGED <<enabledRegs, itemData, aside, platform, platformResolves,
                      itemFocused, itemIgnored>>

NextLedger ==
    \/ \E x \in AllItems : LedgerReg(x)
    \/ \E x \in AllItems : LedgerUnreg(x)
    \/ \E b \in BOOLEAN : LedgerSetAccessibilityEnabled(b)
    \/ \E x \in Items, p \in AllItems, n \in BOOLEAN : SetParent(x, p, n)

SpecLedger == Init /\ [][NextLedger]_vars

\* -------------------------------------------- runs with item notifications
\* QVariant values and cursor positions of the text control
Values == {"", "v1"}
Cursors == {0, 1}

\* any of the builds, with wrappers that resolve to a handle (the case in
\* which propertyChanged consults the revoicing policy)
InitNotify ==
    /\ Constructed /\ Stock /\ Unqueried /\ SecondCopy
    /\ platformResolves /\ platform \in Platforms

\* the text control changes its value and cursor position
ItemEdited(x, v, cur) ==
    /\ itemValue' = [itemValue EXCEPT ![x] = v]
    /\ itemCursor' = [itemCursor EXCEPT ![x] = cur]
    /\ Becomes(Ctl, Op("itemEdited", x, v, FALSE))
    /\ UNCHANGED <<ledger, aside, platform, platformResolves, parentOf,
                   itemFocused, itemIgnored>>

\* item x sends (property, value) on its property-changed stream: the
\* callback that reg() left there calls propertyChanged(x, property, value)
PropertyChanged(x, property, value) ==
    /\ x \in subscribed
    /\ Becomes(propertyChanged(Ctl, x, property, value),
               [value |-> value] @@ Op("propertyChanged", x, property, FALSE))
    /\ UNCHANGED <<ledger, itemData, aside, platform, platformResolves,
                   parentOf, itemFocused, itemIgnored>>

NextNotify ==
    \/ \E x \in Items : Reg(x)
    \/ \E x \in Items : Unreg(x)
    \/ \E t \in Texts : Announce(t)
    \/ \E x \in Items, arg \in BOOLEAN : SetState(x, arg)
    \/ \E x \in Items \ ScoreItems, v \in Values, cur \in Cursors :
          ItemEdited(x, v, cur)
    \/ \E x \in Items, p \in Properties \ {"TextInsert", "TextRemove"} :
          PropertyChanged(x, p, <<>>)
    \/ \E x \in Items, p \in {"TextInsert", "TextRemove"}, v \in TextRanges :
          PropertyChanged(x, p, v)

SpecNotify == InitNotify /\ [][NextNotify]_vars

\* ------------------------------------------------- runs that have commands
\* The dispatcher sends on preDispatch, runs the command and sends on
\* postDispatch; the callbacks are there once init() has run.  Between the
\* two, the command may do anything the application can do.

PreDispatch ==
    /\ m_inited
    /\ ~cmd.open
    /\ cmd' = [open |-> TRUE, announced |-> FALSE,
               pending |-> m_announcement, focus |-> m_lastFocused,
               name |-> IF m_lastFocused = None THEN ""
                        ELSE accessibleName(m_lastFocused)]
    /\ Becomes(preDispatch(Ctl), Op("preDispatch", None, "", FALSE))
    /\ UNCHANGED <<ledger, itemData, queried, engines, itemName, platform,
                   platformResolves, parentOf, itemFocused, itemIgnored>>

PostDispatch(action) ==
    /\ cmd.open
    /\ cmd' = [cmd EXCEPT !.open = FALSE]
    /\ Becomes(postDispatch(Ctl, action),
               Op("postDispatch", None, action.title, action.valid))
    /\ UNCHANGED <<ledger, itemData, queried, engines, itemName, platform,
                   platformResolves, parentOf, itemFocused, itemIgnored>>

\* item x sends (Focused, true) on its state-changed stream: the callback
\* that reg() left there calls stateChanged(x, Focused, true)
Focused(x) ==
    /\ x \in subscribed
    /\ Becomes(stateChanged(Ctl, x, "Focused", TRUE),
               Op("stateChanged", x, "Focused", TRUE))
    /\ UNCHANGED <<ledger, itemData, aside, platform, platformResolves,
                   parentOf, itemFocused, itemIgnored>>

\* announce(t), by the command when one is being dispatched
Announces(t) ==
    /\ cmd' = IF cmd.open THEN [cmd EXCEPT !.announced = TRUE] ELSE cmd
    /\ Becomes(announce(Ctl, t), Op("announce", None, t, FALSE))
    /\ UNCHANGED <<ledger, itemData, queried, engines, itemName, platform,
                   platformResolves, parentOf, itemFocused, itemIgnored>>

\* item x gets the name n.  The score element computes its name and sends
\* nothing; the other item sends (Name) on its property-changed stream
Rename(x, n) ==
    /\ itemName' = [itemName EXCEPT ![x] = n]
    /\ Becomes(IF x \notin ScoreItems /\ x \in subscribed
               THEN propertyChanged(Ctl, x, "Name", <<>>) ELSE Ctl,
               Op("rename", x, n, x \notin ScoreItems))
    /\ UNCHANGED <<ledger, itemData, queried, engines, cmd, platform,
                   platformResolves, parentOf, itemFocused, itemIgnored>>

InitDispatch ==
    /\ Constructed /\ Stock /\ Unqueried /\ SecondCopy
    /\ platformResolves /\ platform = "linux"

NextDispatch ==
    \/ \E x \in Items : Reg(x)
    \/ \E x \in Items : Unreg(x)
    \/ \E x \in Items : Focused(x)
    \/ \E t \in Texts : Announces(t)
    \/ \E x \in Items, n \in Names : Rename(x, n)
    \/ PreDispatch
    \/ \E action \in Actions : PostDispatch(action)

SpecDispatch == InitDispatch /\ [][NextDispatch]_vars

\* ------------------------------------ runs in which a wrapper is queried
\* The platform asks the wrapper of some item, on some build, for its
\* state, its role and its interfaces; the queries change nothing.

InitWrapper ==
    Constructed /\ Stock /\ platformResolves /\ platform \in Platforms
    /\ wrapped \in WrappedItems /\ q = NoQuery
    /\ itemDescription = NoDescriptions /\ SecondCopy

\* what a query of the wrapper leaves alone: all but q and the record
unasked == <<ledger, itemData, itemName, cmd, wrapped, itemDescription,
             overriding, engines, platform, platformResolves, parentOf,
             itemFocused, itemIgnored>>

StateQuery ==
    /\ q' = [op |-> "state", arg |-> "", result |-> state(wrapped)]
    /\ Becomes(Ctl, Op("state", None, "", FALSE))
    /\ UNCHANGED unasked

RoleQuery ==
    /\ q' = [op |-> "role", arg |-> "", result |-> role(wrapped)]
    /\ Becomes(Ctl, Op("role", None, "", FALSE))
    /\ UNCHANGED unasked

InterfaceCast(type) ==
    /\ q' = [op |-> "interface_cast", arg |-> type,
             result |-> interface_cast(wrapped, type)]
    /\ Becomes(Ctl, Op("interface_cast", None, type, FALSE))
    /\ UNCHANGED unasked

NextWrapper ==
    \/ StateQuery
    \/ RoleQuery
    \/ \E type \in InterfaceTypes : InterfaceCast(type)

SpecWrapper == InitWrapper /\ [][NextWrapper]_vars

\* ------------------------------- runs in which the wrappers are read out
\* Items register, take the focus and get announcements, and the platform
\* asks their wrappers for text, on any build.

\* either copy of the source, any build, items with any descriptions
InitText ==
    /\ Constructed /\ Stock /\ copy \in {1, 2}
    /\ platformResolves /\ platform \in Platforms
    /\ wrapped = StockItem /\ q = NoQuery
    /\ itemDescription \in [Items -> Descriptions]

\* the platform asks the wrapper of the registered item x for a text
TextQuery(x, textType) ==
    /\ x \in DOMAIN m_allItems
    /\ q' = [op |-> "text", arg |-> textType,
             result |-> wrapperText(Ctl, x, textType)]
    /\ Becomes(Ctl, Op("text", x, textType, FALSE))
    /\ UNCHANGED unasked

NextText ==
    \/ \E x \in Items : Reg(x)
    \/ \E x \in Items : Focused(x)
    \/ \E x \in Items : PretendFocusRequest(x)
    \/ RestoreFocus
    \/ \E t \in Texts : Announces(t)
    \/ \E x \in Items, textType \in QTextTypes : TextQuery(x, textType)

SpecText == InitText /\ [][NextText]_vars

\* ----------------------------------------- runs with the repeat shortcut
\* The user presses the repeat key (the controller's event filter) or the
\* repeater is asked to repeat, whatever has the focus in the Qt interface.

InitSpeech ==
    /\ Constructed /\ Stock /\ copy \in {1, 2}
    /\ platformResolves /\ platform = "linux"
    /\ wrapped = StockItem /\ q = NoQuery
    /\ itemDescription \in [Items -> {"", "d1"}]

\* what the calls in the trace tr make of an engine e: stop() ends what is
\* being said, say() starts an utterance; an engine in its error state
\* stays there
RECURSIVE speechAfter(_, _)
speechAfter(e, tr) ==
    IF tr = <<>> THEN e
    ELSE LET call == Head(tr).k
             e1 == IF e.state = "Error" THEN e
                   ELSE IF call = "stop" THEN Idle
                   ELSE IF call = "say"
                        THEN [state |-> "Speaking", inFlight |-> e.inFlight + 1]
                   ELSE e
         IN speechAfter(e1, Tail(tr))

\* the controller's repeatCurrentElementInfo(), with its own engine
RepeatCurrentElementInfo(focusObj) ==
    LET r == repeatCurrentElementInfo(Ctl, focusObj, m_textToSpeech.state)
    IN /\ m_textToSpeech' = speechAfter(m_textToSpeech, r.trace)
       /\ Becomes(r, [focusObj |-> focusObj, engine |-> m_textToSpeech.state]
                         @@ Op("repeatCurrentElementInfo", None, "", FALSE))
       /\ UNCHANGED <<ledger, itemData, itemName, cmd, queried, m_speech,
                      platform, platformResolves, parentOf, itemFocused,
                      itemIgnored>>

\* the repeater's repeatCurrentElement(), with its own engine
RepeatCurrentElement ==
    LET r == repeatCurrentElement(Ctl, m_speech.state)
    IN /\ m_speech' = speechAfter(m_speech, r.trace)
       /\ Becomes(r, [focusObj |-> [name |-> "", descr |-> "", value |-> ""],
                      engine |-> m_speech.state]
                         @@ Op("repeatCurrentElement", None, "", FALSE))
       /\ UNCHANGED <<ledger, itemData, itemName, cmd, queried,
                      m_textToSpeech, platform, platformResolves, parentOf,
                      itemFocused, itemIgnored>>

\* the two owners of an engine
Speakers == {"controller", "repeater"}

\* the engine of one of them comes to the end of what it is saying
SpeechEnds(who) ==
    /\ (IF who = "controller" THEN m_textToSpeech ELSE m_speech).state
           = "Speaking"
    /\ m_textToSpeech' = IF who = "controller" THEN Idle ELSE m_textToSpeech
    /\ m_speech' = IF who = "repeater" THEN Idle ELSE m_speech
    /\ Becomes(Ctl, Op("speechEnds", None, who, FALSE))
    /\ UNCHANGED <<ledger, itemData, itemName, cmd, queried, platform,
                   platformResolves, parentOf, itemFocused, itemIgnored>>

\* the engine of one of them fails: it drops what it is saying and reports
\* the error state from then on
SpeechFails(who) ==
    /\ (IF who = "controller" THEN m_textToSpeech ELSE m_speech).state
           # "Error"
    /\ m_textToSpeech' = IF who = "controller"
                         THEN [state |-> "Error", inFlight |-> 0]
                         ELSE m_textToSpeech
    /\ m_speech' = IF who = "repeater"
                   THEN [state |-> "Error", inFlight |-> 0] ELSE m_speech
    /\ Becomes(Ctl, Op("speechFails", None, who, FALSE))
    /\ UNCHANGED <<ledger, itemData, itemName, cmd, queried, platform,
                   platformResolves, parentOf, itemFocused, itemIgnored>>

NextSpeech ==
    \/ \E x \in Items : Reg(x)
    \/ \E x \in Items : Unreg(x)
    \/ \E x \in Items : Focused(x)
    \/ \E x \in Items : PretendFocusRequest(x)
    \/ RestoreFocus
    \/ \E x \in Items \ ScoreItems, v \in Values : ItemEdited(x, v, 0)
    \/ \E focusObj \in QtFocusTexts : RepeatCurrentElementInfo(focusObj)
    \/ RepeatCurrentElement
    \/ \E who \in Speakers : SpeechEnds(who)
    \/ \E who \in Speakers : SpeechFails(who)

SpecSpeech == InitSpeech /\ [][NextSpeech]_vars

\* ------------------------------------- runs with a channel observer
\* A subscriber of eventSent() answers an event by registering or
\* unregistering an item, from within the send() of the operation that
\* raised the event.

ObservedReg(x, reaction) ==
    LET r == reg([Ctl EXCEPT !.observer = reaction], x)
    IN /\ r.nextObj <= MaxObjects + 1
       /\ Becomes(r, [reaction |-> reaction] @@ Op("reg", x, "", FALSE))
       /\ UNCHANGED <<ledger, itemData, aside, platform, platformResolves,
                      parentOf, itemFocused, itemIgnored>>

ObservedUnreg(x, reaction) ==
    LET r == unreg([Ctl EXCEPT !.observer = reaction], x)
    IN /\ r.nextObj <= MaxObjects + 1
       /\ Becomes(r, [reaction |-> reaction] @@ Op("unreg", x, "", FALSE))
       /\ UNCHANGED <<ledger, itemData, aside, platform, platformResolves,
                      parentOf, itemFocused, itemIgnored>>

ObservedFocused(x, reaction) ==
    LET r == stateChanged([Ctl EXCEPT !.observer = reaction], x,
                          "Focused", TRUE)
    IN /\ x \in subscribed
       /\ r.nextObj <= MaxObjects + 1
       /\ Becomes(r, [reaction |-> reaction]
                         @@ Op("stateChanged", x, "Focused", TRUE))
       /\ UNCHANGED <<ledger, itemData, aside, platform, platformResolves,
                      parentOf, itemFocused, itemIgnored>>

NextObserved ==
    \/ \E x \in Items, reaction \in Reactions : ObservedReg(x, reaction)
    \/ \E x \in Items, reaction \in Reactions : ObservedUnreg(x, reaction)
    \/ \E x \in Items, reaction \in Reactions : ObservedFocused(x, reaction)

SpecObserved == InitDispatch /\ [][NextObserved]_vars

\* ------------------------------------ runs in which the tree is walked
\* Items start under the root and under each other and are moved under a
\* container that the application never registers, take and lose the focus, and the
\* controller is asked for the focused child.

\* an accessible item of the application that is never registered
Container == "p"

\* a call of the controller's focusedChild(item)
FocusedChild(item) ==
    /\ q' = [op |-> "focusedChild", arg |-> item,
             result |-> focusedChild(Ctl, item)]
    /\ Becomes(Ctl, Op("focusedChild", item, "", FALSE))
    /\ UNCHANGED unasked

NextTree ==
    \/ \E x \in Items : LedgerReg(x)
    \/ \E x \in Items : LedgerUnreg(x)
    \/ \E x \in Items, arg \in BOOLEAN : SetState(x, arg)
    \/ \E x \in Items : SetParent(x, Container, FALSE)
    \/ \E item \in {None, Root, Container} : FocusedChild(item)

SpecTree == Init /\ [][NextTree]_vars

\* ------------------------------ runs with commands and pretended focus
\* Everything that touches the focus state: registration (of the root too),
\* focus notifications, announcements, the pretend-focus timer and the
\* dispatcher's hooks.

NextFocus ==
    \/ \E x \in AllItems : Reg(x)
    \/ \E x \in AllItems : Unreg(x)
    \/ \E x \in Items : Focused(x)
    \/ \E t \in Texts : Announces(t)
    \/ \E x \in ScoreItems, n \in BOOLEAN : UpdateFromSelection(x, n)
    \/ \E x \in Items : PretendFocusRequest(x)
    \/ RestoreFocus
    \/ PreDispatch
    \/ \E action \in Actions : PostDispatch(action)

SpecFocus == InitDispatch /\ [][NextFocus]_vars

\* ---------------------------------------------- runs with the key filter
\* Once init() has installed the filter, the application offers it every
\* event.

InitHotkey ==
    /\ Constructed /\ Stock /\ copy \in {1, 2}
    /\ platformResolves /\ platform = "linux"
    /\ wrapped = StockItem /\ q = NoQuery
    /\ itemDescription = NoDescriptions

EventFilter(event, focusObj) ==
    LET r == eventFilter(Ctl, event, focusObj, m_textToSpeech.state)
    IN /\ m_inited
       /\ m_textToSpeech' = speechAfter(m_textToSpeech, r.trace)
       /\ q' = [op |-> "eventFilter", arg |-> event.type,
                result |-> eventFilterReturns(event)]
       /\ Becomes(r, [event |-> event, focusObj |-> focusObj,
                      engine |-> m_textToSpeech.state]
                         @@ Op("eventFilter", None, "", FALSE))
       /\ UNCHANGED <<ledger, itemData, itemName, cmd, wrapped,
                      itemDescription, overriding, m_speech, platform,
                      platformResolves, parentOf, itemFocused, itemIgnored>>

NextHotkey ==
    \/ \E x \in Items : Reg(x)
    \/ \E x \in Items : Focused(x)
    \/ \E x \in Items : PretendFocusRequest(x)
    \/ RestoreFocus
    \/ \E event \in KeyEvents \cup {NoEvent}, focusObj \in QtFocusTexts :
          EventFilter(event, focusObj)
    \/ SpeechEnds("controller")
    \/ SpeechFails("controller")

SpecHotkey == InitHotkey /\ [][NextHotkey]_vars

\* --------------------------------- runs in which descriptions are built
\* Items of any name, description and value, a score element that gives
\* screen-reader texts or not; whatever has the focus is described.

InitDescribe ==
    /\ Constructed /\ copy \in {1, 2}
    /\ platformResolves /\ platform = "linux"
    /\ wrapped = StockItem /\ q = NoQuery
    /\ itemName \in [Items -> {"", "n1"}]
    /\ itemDescription \in [Items -> {"", "d1"}]
    /\ itemValue \in {f \in [Items -> Values] :
                         \A x \in ScoreItems : f[x] = ""}
    /\ overriding \in SUBSET ScoreItems
    /\ m_textToSpeech = Idle /\ m_speech = Idle

\* the controller builds the description of the focused item
BuildSpokenDescriptionFor ==
    /\ q' = [op |-> "buildSpokenDescriptionFor", arg |-> m_lastFocused,
             result |-> buildSpokenDescriptionFor(m_lastFocused)]
    /\ Becomes(Ctl, Op("buildSpokenDescriptionFor", m_lastFocused, "", FALSE))
    /\ UNCHANGED unasked

\* the repeater builds it
GetCurrentElementInfo ==
    /\ q' = [op |-> "getCurrentElementInfo", arg |-> m_lastFocused,
             result |-> getCurrentElementInfo(Ctl)]
    /\ Becomes(Ctl, Op("getCurrentElementInfo", m_lastFocused, "", FALSE))
    /\ UNCHANGED unasked

NextDescribe ==
    \/ \E x \in Items : Reg(x)
    \/ \E x \in Items : Focused(x)
    \/ \E x \in Items : PretendFocusRequest(x)
    \/ RestoreFocus
    \/ BuildSpokenDescriptionFor
    \/ GetCurrentElementInfo

SpecDescribe == InitDescribe /\ [][NextDescribe]_vars

\* ===================================================== settled properties
\* what the controller looked like before the last operation, and now
registered(c) == DOMAIN c.m_allItems

\* the registry and focus state of c: what a no-op has to leave alone
RegistryState(c) ==
    <<c.m_allItems, c.m_children, c.m_lastFocused, c.m_pretendFocus,
      c.m_announcement, c.m_inited, c.s_rootObject, c.disposed>>

Now == [Ctl EXCEPT !.trace = trace]

\* the events of the last operation that went to one sink
EventsTo(sink) == SelectSeq(trace, LAMBDA e : e.k = sink)

NoEventSent == EventsTo("channel") = <<>> /\ EventsTo("platform") = <<>>

\* C1: register(x) followed by unregister(x) leaves the entry table without
\* an entry for x, and findItem(x) then returns the invalid sentinel.  Stated
\* for every unregister: once unreg(x) has run, x has no entry and findItem(x)
\* is not valid.
C1_UnregLeavesNoEntry ==
    lastOp.op = "unreg" =>
        /\ lastOp.item \notin DOMAIN m_allItems
        /\ findItem(Now, lastOp.item) = InvalidItem
        /\ ~isValid(findItem(Now, lastOp.item))

\* x was the item registered last (its wrapper is the newest one), it had an
\* entry, and unreg(x) has just removed it
C1_Witness ==
    /\ lastOp.op = "unreg"
    /\ lastOp.item \in registered(prev)
    /\ prev.m_enabled
    /\ prev.m_allItems[lastOp.item].object = prev.nextObj - 1
    /\ lastOp.item \notin DOMAIN m_allItems

\* C2: register(x) for an item that already has an entry is a no-op: the
\* entry table, the top-level children list and the focus state are as they
\* were, and no event (so no `created' event) is emitted.
C2_DoubleRegIsNoop ==
    (lastOp.op = "reg" /\ lastOp.item \in registered(prev)) =>
        /\ RegistryState(Now) = RegistryState(prev)
        /\ nextObj = prev.nextObj
        /\ trace = <<>>

C2_Witness ==
    /\ lastOp.op = "reg"
    /\ lastOp.item \in Items
    /\ lastOp.item \in registered(prev)
    /\ prev.m_enabled
    /\ m_allItems = prev.m_allItems

\* C3: unregister(x) for an item without an entry is a no-op: the entry
\* table, the top-level children list, lastFocused and pretendFocus are as
\* they were and no event (so no `destroyed' event) is emitted.
C3_UnregUnknownIsNoop ==
    (lastOp.op = "unreg" /\ lastOp.item \notin registered(prev)) =>
        /\ RegistryState(Now) = RegistryState(prev)
        /\ trace = <<>>

\* x was registered and unregistered before (a notification stream of x still
\* carries the controller's callback), other items are registered, and a
\* second unreg(x) has run
C3_Witness ==
    /\ lastOp.op = "unreg"
    /\ lastOp.item \notin registered(prev)
    /\ lastOp.item \in subscribed
    /\ registered(prev) # {}
    /\ m_lastFocused # None
    /\ trace = <<>>

\* C4: while accessibility is disabled register(x) is a complete no-op: no
\* entry is created, the children list is unchanged, no event is emitted and
\* the one-time initialization is not performed.
C4_DisabledRegIsNoop ==
    (lastOp.op = "reg" /\ ~prev.m_enabled) =>
        /\ RegistryState(Now) = RegistryState(prev)
        /\ m_inited = prev.m_inited
        /\ (Root \notin registered(prev) => Root \notin DOMAIN m_allItems)
        /\ nextObj = prev.nextObj
        /\ trace = <<>>

\* nothing was ever registered, accessibility is off, and reg(x) has run
C4_Witness ==
    /\ lastOp.op = "reg"
    /\ ~prev.m_enabled
    /\ ~prev.m_inited
    /\ lastOp.item \notin registered(prev)
    /\ ~m_inited
    /\ m_allItems = <<>>

\* C5: if lastFocused is x, then after unregister(x) lastFocused is none.
C5_UnregClearsLastFocused ==
    (lastOp.op = "unreg" /\ prev.m_lastFocused = lastOp.item) =>
        m_lastFocused = None

C5_Witness ==
    /\ lastOp.op = "unreg"
    /\ prev.m_lastFocused = lastOp.item
    /\ lastOp.item \in registered(prev)
    /\ m_lastFocused = None

\* C6 as stated: if the pretend-focus target is x, unregister(x) sets
\* pretendFocus to none, does not change lastFocused, and a firing of the
\* restoration timer afterwards does not set lastFocused to x.
C6_Original ==
    (lastOp.op = "unreg" /\ prev.m_pretendFocus = lastOp.item) =>
        /\ m_pretendFocus = None
        /\ m_lastFocused = prev.m_lastFocused
        /\ restoreFocus(Now).m_lastFocused # lastOp.item

\* C6 amended: if the pretend-focus target is x, unregister(x) sets
\* pretendFocus to none and runs no restoration: lastFocused is as it was,
\* except that it becomes none when it was x itself; a firing of the
\* restoration timer afterwards leaves lastFocused alone, as does every
\* restoreFocus() that finds no pretend-focus target.
C6_UnregClearsPretendFocus ==
    /\ (lastOp.op = "unreg" /\ prev.m_pretendFocus = lastOp.item) =>
          /\ m_pretendFocus = None
          /\ m_lastFocused = IF prev.m_lastFocused = lastOp.item THEN None
                             ELSE prev.m_lastFocused
          /\ m_lastFocused # lastOp.item
          /\ restoreFocus(Now).m_lastFocused = m_lastFocused
    /\ (lastOp.op = "restoreFocus" /\ prev.m_pretendFocus = None) =>
          /\ m_lastFocused = prev.m_lastFocused
          /\ m_pretendFocus = None

\* another item has the focus, x is the pretend-focus target and is usable,
\* so that restoration would have moved the focus to x; unreg(x) has run
C6_Witness ==
    /\ lastOp.op = "unreg"
    /\ prev.m_pretendFocus = lastOp.item
    /\ isUsable(findItem(prev, lastOp.item))
    /\ prev.m_lastFocused \notin {None, lastOp.item}
    /\ m_pretendFocus = None
    /\ m_lastFocused = prev.m_lastFocused

\* C7: announce("") in any state, and announce(text) while no item is
\* focused, send no event to the internal channel nor to the platform.
C7_AnnounceEmptyOrUnfocusedSilent ==
    (lastOp.op = "announce" /\ (lastOp.text = "" \/ prev.m_lastFocused = None))
        => NoEventSent /\ trace = <<>>

\* an item is focused and registered, and announce("") has run
C7_Witness ==
    /\ lastOp.op = "announce"
    /\ lastOp.text = ""
    /\ prev.m_lastFocused \in registered(prev)
    /\ trace = <<>>

\* C8: after announce(t) the pending announcement equals t, for every t: the
\* empty text clears a pending announcement, and the text is stored also
\* when no item is focused and no event is sent.
C8_AnnounceStoresText ==
    lastOp.op = "announce" => m_announcement = lastOp.text

\* a non-empty text was announced with no item focused: stored, no event
C8_Witness ==
    /\ lastOp.op = "announce"
    /\ lastOp.text # ""
    /\ prev.m_lastFocused = None
    /\ prev.m_announcement = ""
    /\ m_announcement = lastOp.text
    /\ trace = <<>>

\* C9: announce(t) with a non-empty t while a registered item is focused
\* sends exactly one NameChanged event, for the focused item's wrapper (once
\* to each sink), and never goes through revoicing.
C9_AnnounceSendsOneNameChanged ==
    (/\ lastOp.op = "announce"
     /\ lastOp.text # ""
     /\ prev.m_lastFocused \in registered(prev)) =>
        LET o == prev.m_allItems[prev.m_lastFocused].object
            ev(sink) == [k |-> sink, type |-> "NameChanged", obj |-> o]
        IN /\ EventsTo("channel") = <<ev("channel")>>
           /\ EventsTo("platform") = <<ev("platform")>>
           /\ \A i \in DOMAIN trace : trace[i].k # "revoicing"

\* the platform resolved a handle for the focused item (so the revoicing
\* policy is consulted) and the event has been sent
C9_Witness ==
    /\ lastOp.op = "announce"
    /\ lastOp.text # ""
    /\ prev.m_lastFocused \in registered(prev)
    /\ prev.m_allItems[prev.m_lastFocused].iface # 0
    /\ Len(trace) = 2

\* C10: when a registered item is unregistered, the `destroyed' event reaches
\* the internal channel and the platform before the wrapper is deleted; no
\* operation deletes a wrapper without both deliveries ahead of the delete.
C10_DestroyedBeforeDispose ==
    /\ \A n \in DOMAIN trace :
          trace[n].k = "dispose" =>
              /\ \E i \in 1..(n - 1) :
                    trace[i] = [k |-> "channel", type |-> "ObjectDestroyed",
                                obj |-> trace[n].obj]
              /\ \E j \in 1..(n - 1) :
                    trace[j] = [k |-> "platform", type |-> "ObjectDestroyed",
                                obj |-> trace[n].obj]
    /\ \A o \in disposed \ prev.disposed :
          \E n \in DOMAIN trace : trace[n].k = "dispose" /\ trace[n].obj = o
    /\ (lastOp.op = "unreg" /\ lastOp.item \in registered(prev)) =>
          prev.m_allItems[lastOp.item].object \in disposed

C10_Witness ==
    /\ lastOp.op = "unreg"
    /\ lastOp.item \in registered(prev)
    /\ Len(trace) = 3
    /\ trace[3].k = "dispose"
    /\ trace[3].obj = prev.m_allItems[lastOp.item].object

\* C11: in every reachable state and for every item x, the number of
\* `created' events emitted for x minus the number of `destroyed' events
\* emitted for x is 1 if x has an entry and 0 otherwise; a successful reg
\* emits exactly one created event (for the new wrapper), an effective unreg
\* exactly one destroyed event (for the wrapper of the entry it took), every
\* such event is for the wrapper of exactly one item, and no wrapper is
\* held by two entries.
C11_CreatedMinusDestroyed ==
    LET sent(type) == {i \in DOMAIN trace : /\ trace[i].k = "channel"
                                            /\ trace[i].type = type}
    IN /\ \A x \in AllItems :
             created[x] - destroyed[x] = IF x \in DOMAIN m_allItems THEN 1
                                         ELSE 0
       /\ \A i \in sent("ObjectCreated") :
             Cardinality(ownerOf(Now, trace[i].obj)) = 1
       /\ \A i \in sent("ObjectDestroyed") :
             Cardinality(ownerOf(prev, trace[i].obj)) = 1
       /\ \A x, y \in DOMAIN m_allItems :
             m_allItems[x].object = m_allItems[y].object => x = y
       /\ (/\ lastOp.op = "reg"
           /\ lastOp.item \notin registered(prev)
           /\ lastOp.item \in DOMAIN m_allItems) =>
             Cardinality({i \in sent("ObjectCreated") :
                 trace[i].obj = m_allItems[lastOp.item].object}) = 1
       /\ (lastOp.op = "unreg" /\ lastOp.item \in registered(prev)) =>
             /\ Cardinality(sent("ObjectDestroyed")) = 1
             /\ \A i \in sent("ObjectDestroyed") :
                   trace[i].obj = prev.m_allItems[lastOp.item].object

\* an item was registered, unregistered and registered again: two created
\* events and one destroyed event have been emitted for it
C11_Witness ==
    \E x \in Items :
        /\ created[x] = 2
        /\ destroyed[x] = 1
        /\ x \in DOMAIN m_allItems
        /\ lastOp.op = "reg"
        /\ lastOp.item = x

\* C12: the root's child count equals the number of registered items whose
\* reported parent was the controller when they were registered; an item
\* whose parent was another item is not in the top-level list; with root, A
\* (parent root) and B (parent A) registered the count is 1; and a change of
\* an item's reported parent after registration, notified or not, leaves the
\* top-level list as it was.
C12_RootChildCount ==
    /\ rootAccessibleChildCount(Now) =
          Cardinality({x \in DOMAIN m_allItems : parentAtReg[x] = Root})
    /\ \A x \in DOMAIN m_allItems :
          contains(m_children, x) <=> parentAtReg[x] = Root
    /\ \A i \in DOMAIN m_children : m_children[i] \in DOMAIN m_allItems
    /\ (/\ DOMAIN m_allItems = AllItems
        /\ parentAtReg["a"] = Root
        /\ parentAtReg["b"] = "a") => rootAccessibleChildCount(Now) = 1
    /\ lastOp.op = "setParent" => m_children = prev.m_children

\* root, A (parent root) and B (parent A) are registered, and B has then been
\* moved under the root with a notification: the count is still 1
C12_Witness ==
    /\ DOMAIN m_allItems = AllItems
    /\ parentAtReg["a"] = Root
    /\ parentAtReg["b"] = "a"
    /\ lastOp = Op("setParent", "b", Root, TRUE)
    /\ parentOf["b"] = Root
    /\ Len(trace) = 2
    /\ rootAccessibleChildCount(Now) = 1

\* init() ran within the last operation
InitRan == \E i \in DOMAIN trace : trace[i].k = "init"

\* C14: over any sequence of register, unregister, enable and disable calls
\* init() runs at most once, and it runs exactly in the first reg() call made
\* while accessibility is enabled; that call leaves the root (whose wrapper
\* is handed to the platform) and the item registered; no later reg() call
\* runs it again, registered root or not.
C14_InitExactlyOnce ==
    /\ initRuns <= 1
    /\ initRuns = 1 <=> enabledRegs >= 1
    /\ m_inited <=> initRuns = 1
    /\ InitRan <=> (lastOp.op = "reg" /\ prev.m_enabled /\ enabledRegs = 1)
    /\ InitRan =>
          /\ Cardinality({i \in DOMAIN trace : trace[i].k = "init"}) = 1
          /\ Root \in DOMAIN m_allItems
          /\ lastOp.item \in DOMAIN m_allItems
          /\ s_rootObject = m_allItems[Root].object

\* a later reg() call made while enabled, with the root unregistered in the
\* meantime: the item is registered and init() has not run again
C14_Witness ==
    /\ lastOp.op = "reg"
    /\ prev.m_enabled
    /\ enabledRegs = 2
    /\ Root \notin registered(prev)
    /\ lastOp.item \notin registered(prev)
    /\ lastOp.item \in DOMAIN m_allItems
    /\ initRuns = 1
    /\ ~InitRan

\* the event type that goes with each property (TextCursorMoved is Qt's
\* TextCaretMoved); Description has the type of the build
EventTypeOf(property) ==
    CASE property = "Parent" -> "ParentChanged"
      [] property = "Name" -> "NameChanged"
      [] property = "Description" -> nameEventType("Description")
      [] property = "Value" -> "ValueChanged"
      [] property = "TextCursor" -> "TextCaretMoved"
      [] property = "TextInsert" -> "TextInserted"
      [] property = "TextRemove" -> "TextRemoved"

\* C17: for a registered item, a property-changed notification emits exactly
\* one event, for the item's wrapper, whose type is fixed by the property:
\* Parent gives ParentChanged, Name gives NameChanged, Value gives
\* ValueChanged carrying the item's current value, TextCursor gives
\* TextCursorMoved carrying the current cursor position, TextInsert gives
\* TextInserted and TextRemove gives TextRemoved; a notification with
\* property Undefined emits no event.
C17_OneEventPerProperty ==
    (lastOp.op = "propertyChanged" /\ lastOp.item \in registered(prev)) =>
        LET x == lastOp.item
            o == prev.m_allItems[x].object
            ch == EventsTo("channel")
        IN IF lastOp.text = "Undefined" THEN trace = <<>>
           ELSE /\ Len(ch) = 1
                /\ Len(EventsTo("platform")) = 1
                /\ ch[1].type = EventTypeOf(lastOp.text)
                /\ ch[1].obj = o
                /\ lastOp.text = "Value" => ch[1].val = itemValue[x]
                /\ lastOp.text = "TextCursor" => ch[1].val = itemCursor[x]
                /\ lastOp.text \in {"TextInsert", "TextRemove"} =>
                      ch[1].val[1] = lastOp.value.startPosition

\* the text control was edited and then sent a Value notification: the one
\* event carries the value it has now
C17_Witness ==
    /\ lastOp.op = "propertyChanged"
    /\ lastOp.text = "Value"
    /\ lastOp.item \in registered(prev)
    /\ itemValue[lastOp.item] = "v1"
    /\ Len(trace) = 2
    /\ trace[1].val = "v1"

\* C18: a Name or Description notification from the currently focused item
\* clears the pending announcement, and does so before the event is
\* delivered to either sink; the same notification from an item that is not
\* the focused one leaves the pending announcement as it was.
C18_FocusedNameChangeClearsAnnouncement ==
    (lastOp.op = "propertyChanged" /\ lastOp.text \in {"Name", "Description"})
    => IF lastOp.item = prev.m_lastFocused
       THEN /\ m_announcement = ""
            /\ Len(trace) = 3
            /\ trace[1].k = "clear"
            /\ trace[2].k = "channel"
            /\ trace[3].k = "platform"
       ELSE /\ m_announcement = prev.m_announcement
            /\ \A i \in DOMAIN trace : trace[i].k # "clear"

\* an announcement is pending for the focused item, and the item has sent a
\* Description notification
C18_Witness ==
    /\ lastOp.op = "propertyChanged"
    /\ lastOp.text = "Description"
    /\ lastOp.item = prev.m_lastFocused
    /\ prev.m_announcement = "t1"
    /\ m_announcement = ""
    /\ Len(trace) = 3

\* the notifications an item may send: every property with a value
Notifications ==
    ((Properties \ {"TextInsert", "TextRemove"}) \X {<<>>})
        \cup ({"TextInsert", "TextRemove"} \X TextRanges)

\* the result r of an operation holds an event for wrapper o, at both sinks
SentFor(r, o) ==
    /\ \E i \in DOMAIN r.trace : r.trace[i].k = "channel" /\ r.trace[i].obj = o
    /\ \E i \in DOMAIN r.trace : r.trace[i].k = "platform" /\ r.trace[i].obj = o

Deliveries == SelectSeq(trace, LAMBDA e : e.k \in {"channel", "platform"})

\* C13: every synthesized event is delivered to both sinks, in order: the
\* deliveries of an operation come in pairs, the internal channel first and
\* the platform right after it with the same event, so that no event reaches
\* the platform that the channel has not seen and none reaches one sink only.
C13_BothSinksInOrder ==
    /\ Len(Deliveries) % 2 = 0
    /\ \A i \in DOMAIN Deliveries :
          i % 2 = 1 =>
              /\ Deliveries[i].k = "channel"
              /\ Deliveries[i + 1] = [Deliveries[i] EXCEPT !.k = "platform"]
    /\ Len(EventsTo("channel")) = Len(EventsTo("platform"))
    /\ \A j \in DOMAIN trace :
          trace[j].k = "platform" =>
              \E i \in 1..(j - 1) :
                  trace[i] = [trace[j] EXCEPT !.k = "channel"]

\* the first reg() call sends two events, one for the root and one for the
\* item: four deliveries
C13_Witness ==
    /\ lastOp.op = "reg"
    /\ Len(Deliveries) = 4
    /\ Deliveries[1].obj # Deliveries[3].obj
    /\ Deliveries[2].k = "platform"
    /\ Deliveries[4].k = "platform"

\* C15: findItem(x) for an item without an entry (and for a null item)
\* returns the invalid sentinel: isValid false, null wrapper, null handle; it
\* is a read of the table.  Every navigation helper returns null (0) or -1
\* when it is given a null item, and when the parent or the child it comes
\* to has no entry.
C15_LookupsFailGracefully ==
    LET idx == 0..MaxObjects
        handles == 0..(MaxObjects + 1)
        absent(y) == y = None \/ y \notin DOMAIN m_allItems
    IN /\ \A x \in AllItems \cup {None} :
             absent(x) =>
                 /\ findItem(Now, x) = InvalidItem
                 /\ ~isValid(findItem(Now, x))
                 /\ findItem(Now, x).object = 0
                 /\ findItem(Now, x).iface = 0
       /\ parentIface(Now, None) = 0
       /\ childCount(Now, None) = 0
       /\ focusedChild(Now, None) = 0
       /\ \A i \in idx : child(Now, None, i) = 0
       /\ \A h \in handles : indexOfChild(Now, None, h) = -1
       /\ \A x \in AllItems :
             /\ absent(parentOf[x]) => parentIface(Now, x) = 0
             /\ \A i \in idx :
                   absent(accessibleChild(Now, x, i)) => child(Now, x, i) = 0
             /\ indexOfChild(Now, x, 0) = -1
             /\ \A h \in handles \ {0} :
                   (\A i \in idx : absent(accessibleChild(Now, x, i)))
                       => indexOfChild(Now, x, h) = -1
             /\ (\A i \in idx :
                    (/\ accessibleChild(Now, x, i) # None
                     /\ accessibleStateFocused(
                            Now, accessibleChild(Now, x, i)))
                        => absent(accessibleChild(Now, x, i)))
                   => focusedChild(Now, x) = 0

\* "a" is registered with a resolved handle; its child "b", which reports
\* the Focused state, has just been unregistered: child(a, 0) and
\* focusedChild(a) come to an item without an entry
C15_Witness ==
    /\ lastOp = Op("unreg", "b", "", FALSE)
    /\ "b" \in registered(prev)
    /\ "a" \in DOMAIN m_allItems
    /\ m_allItems["a"].iface # 0
    /\ itemFocused["b"]
    /\ accessibleChild(Now, "a", 0) = "b"
    /\ child(prev, "a", 0) # 0
    /\ child(Now, "a", 0) = 0
    /\ focusedChild(Now, "a") = 0
    /\ parentIface(Now, "b") # 0

\* what the root reports apart from its name: role Application, no parent,
\* the top-level list as its children (none for an index out of range), and
\* empty or zero results for every value and text operation
RootReportsBesidesName ==
    LET n == rootAccessibleChildCount(Now)
    IN /\ rootAccessibleRole = "Application"
       /\ rootAccessibleParent = None
       /\ n = Len(m_children)
       /\ {rootAccessibleChild(Now, i) : i \in 0..(n - 1)}
             = {x \in DOMAIN m_allItems : parentAtReg[x] = Root}
       /\ \A i \in 0..(MaxObjects + 1) :
             rootAccessibleChild(Now, i) = IF i < Len(m_children)
                                           THEN m_children[i + 1] ELSE None
       /\ \A f \in {"accessibleValue", "accessibleMaximumValue",
                     "accessibleMinimumValue", "accessibleValueStepSize",
                     "accessibleText"} : rootValueAndText[f] = ""
       /\ \A f \in {"accessibleSelectionCount", "accessibleCursorPosition",
                     "accessibleCharacterCount", "accessibleRowIndex"} :
             rootValueAndText[f] = 0
       /\ rootValueAndText.accessibleSelection = <<0, 0>>
       /\ \A f \in {"accessibleTextBeforeOffset", "accessibleTextAfterOffset",
                     "accessibleTextAtOffset"} :
             rootValueAndText[f] = <<"", 0, 0>>

\* C16 as stated: once registered as the root item, the controller reports
\* the fixed name 'application', role Application, parent none, the
\* top-level list as children, and empty or zero results for all value and
\* text operations.
C16_Original ==
    Root \in DOMAIN m_allItems =>
        /\ rootAccessibleName = "application"
        /\ RootReportsBesidesName

\* C16 amended: once registered as the root item, the controller reports
\* the fixed name 'MuseScore', role Application, parent none, children
\* equal to the top-level list (an index out of range yields none), and
\* empty or zero results for all value and text operations.
C16_RootItemReports ==
    Root \in DOMAIN m_allItems =>
        /\ rootAccessibleName = "MuseScore"
        /\ RootReportsBesidesName

\* two items are registered under the root: the root lists both, in the
\* order of registration, and has no child at index 2
C16_Witness ==
    /\ rootAccessibleChildCount(Now) = 2
    /\ rootAccessibleChild(Now, 0) # rootAccessibleChild(Now, 1)
    /\ rootAccessibleChild(Now, 1) \in Items
    /\ rootAccessibleChild(Now, 2) = None
    /\ Root \in DOMAIN m_allItems
    /\ lastOp.op = "reg"

\* C20: after a registered item has been marked focused with
\* setState(Focused, true), lastFocused() returns that item.
C20_SetFocusedSetsLastFocused ==
    (/\ lastOp.op = "setState"
     /\ lastOp.text = "Focused"
     /\ lastOp.arg
     /\ lastOp.item \in DOMAIN m_allItems) => lastFocused(Now) = lastOp.item

\* C23: restoreFocus() changes lastFocused and emits an event in no case
\* where the pretend-focus target is none, has no entry or reports
\* accessibleIgnored(); a target that is registered and not ignored becomes
\* lastFocused.  No restoreFocus() emits an event.
C23_RestoreFocusOnlyUsable ==
    lastOp.op = "restoreFocus" =>
        LET target == prev.m_pretendFocus
            usable == /\ target # None
                      /\ target \in DOMAIN prev.m_allItems
                      /\ ~itemIgnored[target]
        IN /\ trace = <<>>
           /\ usable => m_lastFocused = target
           /\ ~usable => m_lastFocused = prev.m_lastFocused

\* the timer has fired while the pretend-focus target, which is registered
\* and is not the focused item, reported accessibleIgnored()
C23_Witness ==
    /\ lastOp.op = "restoreFocus"
    /\ prev.m_pretendFocus \in DOMAIN prev.m_allItems
    /\ itemIgnored[prev.m_pretendFocus]
    /\ prev.m_lastFocused \notin {None, prev.m_pretendFocus}
    /\ m_lastFocused = prev.m_lastFocused
    /\ m_pretendFocus = None

\* what the post-dispatch hook found, against what the command started with
FocusAndNameKept ==
    /\ prev.m_lastFocused = cmd.focus
    /\ cmd.focus # None
    /\ accessibleName(cmd.focus) = cmd.name

\* C21: if an item is focused and, between the pre-dispatch and the
\* post-dispatch hook of a command, the focused item and its name are
\* unchanged and announce was not called, post-dispatch sets the pending
\* announcement to the command's non-empty display title and emits a
\* name-changed event for the focused item, whatever announcement was
\* pending before pre-dispatch.
C21_PostDispatchSynthesizes ==
    (/\ lastOp.op = "postDispatch"
     /\ FocusAndNameKept
     /\ ~cmd.announced
     /\ lastOp.arg
     /\ lastOp.text # "") =>
        LET o == prev.m_allItems[cmd.focus].object
            ev(sink) == [k |-> sink, type |-> "NameChanged", obj |-> o]
        IN /\ m_announcement = lastOp.text
           /\ cmd.focus \in registered(prev)
           /\ trace = <<ev("channel"), ev("platform")>>

\* an announcement was pending when the command began, the command left
\* focus and name alone, and the hook has announced the title
C21_Witness ==
    /\ lastOp.op = "postDispatch"
    /\ FocusAndNameKept
    /\ ~cmd.announced
    /\ cmd.pending # ""
    /\ lastOp.arg
    /\ m_announcement = "title"
    /\ Len(trace) = 2

C24_WrapperAgreesWithRegistry ==
    LET handles == {0} \cup {m_allItems[y].iface : y \in DOMAIN m_allItems}
    IN /\ \A x \in DOMAIN m_allItems :
             /\ wrapperParent(Now, x) = parentIface(Now, x)
             /\ wrapperChildCount(Now, x) = childCount(Now, x)
             /\ \A i \in 0..Len(Siblings) :
                    wrapperChild(Now, x, i) = child(Now, x, i)
             /\ \A h \in handles :
                    wrapperIndexOfChild(Now, x, h) = indexOfChild(Now, x, h)
             /\ wrapperFocusChild(Now, x) = focusedChild(Now, x)
       /\ Root \in DOMAIN m_allItems =>
             wrapperChildCount(Now, Root) = Len(m_children)

\* the flags that are set in the state the wrapper reported
FlagsSet == {f \in DOMAIN q.result : q.result[f]}

\* the flag f if the item reports the state, no flag otherwise
Follows(f, itemState) == IF itemState THEN {f} ELSE {}

\* C25: for an item whose Enabled state is false, the computed platform
\* state has disabled and invisible set and no other flag, for every role
\* and whatever the item's Focused, Active, Selected and Checked states are.
C25_DisabledAndInvisibleOnly ==
    (q.op = "state" /\ ~wrapped.Enabled) =>
        FlagsSet = {"disabled", "invisible"}

\* a disabled check box that is focused and checked has been asked
C25_Witness ==
    /\ q.op = "state"
    /\ ~wrapped.Enabled
    /\ wrapped.role = "CheckBox"
    /\ wrapped.Focused
    /\ wrapped.Checked
    /\ q.result.disabled

\* C26: for an enabled item the computed state follows the shape of its
\* role: Button is focusable and focused as the item is; RadioButton and
\* CheckBox are focusable and checkable, focused and checked as the item
\* is; List, Panel and Dialog are active as the item is, Application is
\* active; NoRole and an unrecognized role set no flag.
C26_StateShapePerRole ==
    (q.op = "state" /\ wrapped.Enabled) =>
        /\ wrapped.role = "Button" =>
              FlagsSet = {"focusable"} \cup Follows("focused", wrapped.Focused)
        /\ wrapped.role \in {"RadioButton", "CheckBox"} =>
              FlagsSet = {"focusable", "checkable"}
                            \cup Follows("focused", wrapped.Focused)
                            \cup Follows("checked", wrapped.Checked)
        /\ wrapped.role \in {"List", "Panel", "Dialog"} =>
              FlagsSet = Follows("active", wrapped.Active)
        /\ wrapped.role = "Application" => FlagsSet = {"active"}
        /\ wrapped.role \in {"NoRole", "Other"} => FlagsSet = {}

\* an enabled check box that is checked, active and selected but not
\* focused has been asked
C26_Witness ==
    /\ q.op = "state"
    /\ wrapped = [role |-> "CheckBox", Enabled |-> TRUE, Focused |-> FALSE,
                  Active |-> TRUE, Selected |-> TRUE, Checked |-> TRUE]
    /\ FlagsSet = {"focusable", "checkable", "checked"}

\* C29 as stated: capability exposure depends only on the item's role: the
\* value interface is exposed only for range-like roles, the text interface
\* for every role, and the table-cell interface only for items whose role
\* is ListItem.
C29_Original ==
    q.op = "interface_cast" =>
        /\ q.result = interface_cast([StockItem EXCEPT !.role = wrapped.role],
                                     q.arg)
        /\ q.result = "QAccessibleValueInterface" => wrapped.role = "Range"
        /\ q.arg = "TextInterface" => q.result = "QAccessibleTextInterface"
        /\ q.result = "QAccessibleTableCellInterface" =>
              wrapped.role = "ListItem"

\* C29 amended: on each build, capability exposure depends only on the
\* item's role: the value interface is exposed only for the Range role, and
\* is for it; the text interface is exposed for every role; the table-cell
\* interface is exposed only for items whose platform role is ListItem,
\* which are the items of role ListItem and, except on macOS, the items of
\* the silent role, and is for them.
C29_ExposureByPlatformRole ==
    q.op = "interface_cast" =>
        LET listItem == \/ wrapped.role = "ListItem"
                        \/ wrapped.role = "SilentRole" /\ platform # "mac"
        IN /\ q.result = interface_cast(
                             [StockItem EXCEPT !.role = wrapped.role], q.arg)
           /\ q.result = "QAccessibleValueInterface" =>
                 wrapped.role = "Range"
           /\ (q.arg = "ValueInterface" /\ wrapped.role = "Range") =>
                 q.result = "QAccessibleValueInterface"
           /\ q.arg = "TextInterface" =>
                 q.result = "QAccessibleTextInterface"
           /\ q.result = "QAccessibleTableCellInterface" => listItem
           /\ (q.arg = "TableCellInterface" /\ listItem) =>
                 q.result = "QAccessibleTableCellInterface"

\* off macOS, a disabled item of the silent role has been asked for the
\* table-cell interface and has handed it out
C29_Witness ==
    /\ q.op = "interface_cast"
    /\ q.arg = "TableCellInterface"
    /\ wrapped.role = "SilentRole"
    /\ ~wrapped.Enabled
    /\ platform = "linux"
    /\ q.result = "QAccessibleTableCellInterface"

\* C27: the wrapper's name text is the pending announcement whenever the
\* wrapped item is the currently focused item and the pending announcement
\* is non-empty; for any other item, or when the announcement is empty, the
\* name text is derived from the item's own name: it is the name, or the
\* name with ", " and the item's description after it.
C27_NameTextIsAnnouncementOrName ==
    (lastOp.op = "text" /\ lastOp.text = "Name") =>
        LET x == lastOp.item
            own == {accessibleName(x),
                    accessibleName(x) \o ", " \o accessibleDescription(x)}
        IN IF x = m_lastFocused /\ m_announcement # ""
           THEN q.result = m_announcement
           ELSE q.result \in own

\* the focused item, with an announcement pending, has been asked its name
\* and has answered with the announcement
C27_Witness ==
    /\ lastOp.op = "text"
    /\ lastOp.text = "Name"
    /\ lastOp.item = m_lastFocused
    /\ m_announcement = "t1"
    /\ q.result = "t1"
    /\ \E y \in DOMAIN m_allItems : y \notin {Root, lastOp.item}

\* C28: for a focused item with a non-empty name, an empty description, no
\* pending announcement and no pending panel announcement, text(Name)
\* returns exactly the item's name, with no ", " after it.
C28_NameAloneWithoutDescription ==
    (/\ lastOp.op = "text"
     /\ lastOp.text = "Name"
     /\ lastOp.item = m_lastFocused
     /\ accessibleName(lastOp.item) # ""
     /\ accessibleDescription(lastOp.item) = ""
     /\ m_announcement = ""
     /\ ~needToVoicePanelInfo(Now)) =>
        q.result = accessibleName(lastOp.item)

\* on macOS, where descriptions are joined to names, the focused item has
\* no description while the other one has, and it has been asked its name
C28_Witness ==
    /\ lastOp.op = "text"
    /\ lastOp.text = "Name"
    /\ platform = "mac"
    /\ lastOp.item = m_lastFocused
    /\ itemDescription[lastOp.item] = ""
    /\ \E y \in Items : itemDescription[y] = "d1"
    /\ m_announcement = ""
    /\ q.result = "n1"

\* what the last operation passed to the text-to-speech engine
Said == SelectSeq(trace, LAMBDA e : e.k = "say")

\* C30: when no item is focused (lastFocused is none), the repeat-speech
\* operation passes exactly the literal "No element focused" to the
\* text-to-speech engine, whatever else has the focus in the application's
\* interface; the repeater, whose speak() gives up on an engine in its error
\* state, passes nothing then.
C30_NoFocusSaysNoElementFocused ==
    (/\ lastOp.op \in {"repeatCurrentElementInfo", "repeatCurrentElement"}
     /\ prev.m_lastFocused = None) =>
        /\ \A i \in DOMAIN Said : Said[i].type = "No element focused"
        /\ Len(Said) = IF /\ lastOp.op = "repeatCurrentElement"
                          /\ lastOp.engine = "Error" THEN 0 ELSE 1

\* string s starts with, ends with, or holds somewhere the string p
HasPrefix(s, p) == Len(s) >= Len(p) /\ SubSeq(s, 1, Len(p)) = p

HasSuffix(s, p) ==
    Len(s) >= Len(p) /\ SubSeq(s, Len(s) - Len(p) + 1, Len(s)) = p

Includes(s, p) ==
    \E i \in 1..(Len(s) - Len(p) + 1) : SubSeq(s, i, i + Len(p) - 1) = p

\* a separator where it does not belong: in front, at the end, or doubled
Misplaced(s, sep) ==
    HasPrefix(s, sep) \/ HasSuffix(s, sep) \/ Includes(s, sep \o sep)

\* two texts, joined by sep when neither is empty
Join2(s, t, sep) ==
    IF s = "" THEN t ELSE IF t = "" THEN s ELSE s \o sep \o t

\* C31: the spoken description of a focused item x.  If x has the
\* document-content role and its screen-reader info and extra info are not
\* both empty, it is the non-empty ones of the two joined with "; ".
\* Otherwise it is the non-empty ones of name, description and "value: "
\* followed by the value, joined with ", ", or the literal "Unknown element"
\* when all three are empty.  It is never empty, and a separator never
\* stands in front, at the end or twice in a row.
C31_SpokenDescription ==
    (/\ lastOp.op \in {"buildSpokenDescriptionFor", "getCurrentElementInfo"}
     /\ lastOp.item # None) =>
        LET x == lastOp.item
            info == accessibleScreenReaderInfo(x)
            extra == accessibleExtraInfo(x)
            name == accessibleName(x)
            desc == accessibleDescription(x)
            val == accessibleValue(x)
            document == accessibleRole(x) = "ElementOnScore"
        IN /\ q.result =
                 IF document /\ ~(info = "" /\ extra = "")
                 THEN Join2(info, extra, "; ")
                 ELSE IF name = "" /\ desc = "" /\ val = ""
                 THEN "Unknown element"
                 ELSE Join2(name,
                            Join2(desc, IF val = "" THEN ""
                                        ELSE "value: " \o val, ", "), ", ")
           /\ q.result # ""
           /\ ~Misplaced(q.result, "; ")
           /\ ~Misplaced(q.result, ", ")

\* a score element without screen-reader texts of its own is described by
\* its name and description
C31_Witness ==
    /\ lastOp.op = "buildSpokenDescriptionFor"
    /\ lastOp.item \in ScoreItems \ overriding
    /\ q.result = "n1, d1"

\* the speak requests, and the calls the last operation made on its engine
SpeakRequests == {"repeatCurrentElementInfo", "repeatCurrentElement"}

EngineCalls == SelectSeq(trace, LAMBDA e : e.k \in {"stop", "say"})

\* C32: a speak request that finds its text-to-speech engine speaking calls
\* stop() on it and then say(text), and so neither engine ever has more than
\* one utterance in flight.
C32_StopsBeforeItSays ==
    /\ (lastOp.op \in SpeakRequests /\ lastOp.engine = "Speaking") =>
           /\ Len(EngineCalls) = 2
           /\ EngineCalls[1].k = "stop"
           /\ EngineCalls[2].k = "say"
    /\ m_textToSpeech.inFlight <= 1
    /\ m_speech.inFlight <= 1

\* the repeater is asked again while its engine still speaks
C32_Witness ==
    /\ lastOp.op = "repeatCurrentElement"
    /\ lastOp.engine = "Speaking"
    /\ m_speech = [state |-> "Speaking", inFlight |-> 1]

\* C33: a speak request that finds its text-to-speech engine in the error
\* state is a no-op: it calls neither stop() nor say() on the engine.  This
\* holds for the repeater and for the controller's repeat operation.
C33_ErrorEngineIsLeftAlone ==
    (lastOp.op \in SpeakRequests /\ lastOp.engine = "Error") =>
        EngineCalls = <<>>

\* C34: a key-press event for the repeat key makes the filter speak if and
\* only if the event is not an auto-repeat and carries no modifiers: with the
\* auto-repeat flag set it never speaks, and the same key without the flag
\* and without modifiers always does (the repeat key is always enabled).
C34_RepeatKeyTriggers ==
    (/\ lastOp.op = "eventFilter"
     /\ lastOp.event # NoEvent
     /\ lastOp.event.type = "KeyPress"
     /\ lastOp.event.key = m_repeatHotkey) =>
        LET triggers == /\ ~lastOp.event.isAutoRepeat
                        /\ lastOp.event.modifiers = "NoModifier"
        IN Len(Said) = IF triggers THEN 1 ELSE 0

\* the repeat key is held down while an item has the focus: nothing is said
C34_Witness ==
    /\ lastOp.op = "eventFilter"
    /\ lastOp.event = [type |-> "KeyPress", key |-> m_repeatHotkey,
                       isAutoRepeat |-> TRUE, modifiers |-> "NoModifier"]
    /\ m_lastFocused # None
    /\ Said = <<>>

\* C35: in every reachable state lastFocused is none or an item that has an
\* entry in the entry table, whatever registrations, unregistrations,
\* announcements, focus restorations and dispatcher hooks have run.
C35_LastFocusedIsRegistered ==
    m_lastFocused = None \/ m_lastFocused \in DOMAIN m_allItems

\* the focused item is unregistered while a command is dispatched, and
\* lastFocused is none afterwards
C35_Witness ==
    /\ lastOp.op = "unreg"
    /\ prev.m_lastFocused = lastOp.item
    /\ lastOp.item \in Items
    /\ cmd.open
    /\ m_lastFocused = None

\* C36: in every reachable state the top-level children list holds no item
\* twice, holds only items that have an entry in the entry table, and does
\* not hold the root.
C36_ChildrenListIsSound ==
    /\ \A i, j \in DOMAIN m_children :
           i # j => m_children[i] # m_children[j]
    /\ \A i \in DOMAIN m_children : m_children[i] \in DOMAIN m_allItems
    /\ \A i \in DOMAIN m_children : m_children[i] # Root

\* both items were moved under the root and registered, the root with them
C36_Witness ==
    /\ lastOp.op = "reg"
    /\ Len(m_children) = 2
    /\ Root \in DOMAIN m_allItems

\* C37: in every reachable state after initialization, the root object
\* handed to the platform (s_rootObject) is the wrapper stored in the root's
\* current entry and has not been disposed, also after the root itself was
\* unregistered and further items were registered.
C37_RootObjectIsLive ==
    m_inited =>
        /\ s_rootObject = findItem(Now, Root).object
        /\ s_rootObject \notin disposed

\* C39: a property-changed notification raised by an item that has no entry
\* (its subscription outlives its entry) emits no event and leaves the
\* pending announcement, the focus state and the entry table unchanged.
C39_NotificationWithoutEntryIsDropped ==
    (/\ lastOp.op = "propertyChanged"
     /\ lastOp.item \notin DOMAIN prev.m_allItems) =>
        /\ NoEventSent
        /\ trace = <<>>
        /\ m_announcement = prev.m_announcement
        /\ m_lastFocused = prev.m_lastFocused
        /\ m_pretendFocus = prev.m_pretendFocus
        /\ m_allItems = prev.m_allItems
        /\ m_children = prev.m_children

\* an unregistered item reports a new parent while another item has the
\* focus and an announcement is pending
C39_Witness ==
    /\ lastOp.op = "propertyChanged"
    /\ lastOp.text = "Parent"
    /\ lastOp.item \notin DOMAIN m_allItems
    /\ lastOp.item \in subscribed
    /\ m_lastFocused # None
    /\ m_announcement # ""

\* the children that item lists, in order, and the first of them that
\* reports the Focused state (None when there is none)
ChildrenOf(item) ==
    [i \in 1..accessibleChildCount(Now, item) |->
        accessibleChild(Now, item, i - 1)]

FirstFocused(item) ==
    LET kids == ChildrenOf(item)
        at == {i \in DOMAIN kids : accessibleStateFocused(Now, kids[i])}
    IN IF at = {} THEN None
       ELSE kids[CHOOSE i \in at : \A j \in at : i <= j]

\* the handle the platform resolved for x: 0 without entry or without handle
HandleOf(x) == IF x \in DOMAIN m_allItems THEN m_allItems[x].iface ELSE 0

\* C40 as stated: focusedChild(item) returns the handle of the first child
\* that reports Focused, and consequently a non-null handle whenever some
\* registered child with a resolved handle reports Focused, and null only
\* when there is no such child.
C40_Original ==
    (lastOp.op = "focusedChild" /\ lastOp.item # None) =>
        LET kids == ChildrenOf(lastOp.item)
            some == \E i \in DOMAIN kids :
                       /\ accessibleStateFocused(Now, kids[i])
                       /\ HandleOf(kids[i]) # 0
        IN /\ q.result = HandleOf(FirstFocused(lastOp.item))
           /\ (q.result # 0) <=> some

\* C40 (amended): focusedChild(item) returns the handle of the first child,
\* in child order, that reports the Focused state.  It is therefore non-null
\* exactly when that first child is registered with a resolved handle, and
\* null when no child reports Focused or when the first one that does has no
\* entry or no handle, whatever the later children report.
C40_FirstFocusedChild ==
    (lastOp.op = "focusedChild" /\ lastOp.item # None) =>
        LET first == FirstFocused(lastOp.item)
        IN /\ q.result = HandleOf(first)
           /\ (q.result # 0) <=> (first # None /\ HandleOf(first) # 0)

\* the first focused child of the container has no entry, the second has one
\* with a handle: the answer is null
C40_Witness ==
    /\ lastOp.op = "focusedChild"
    /\ lastOp.item = Container
    /\ Len(ChildrenOf(Container)) = 2
    /\ FirstFocused(Container) \notin DOMAIN m_allItems
    /\ \E i \in DOMAIN ChildrenOf(Container) :
           /\ accessibleStateFocused(Now, ChildrenOf(Container)[i])
           /\ HandleOf(ChildrenOf(Container)[i]) # 0
    /\ q.result = 0

\* C38: whenever an event is forwarded to the platform, the wrapper it
\* refers to has not been disposed, also when an observer of the event
\* channel registers or unregisters items (the event's own item among them)
\* while it handles the event.
C38_ForwardedWrapperIsAlive ==
    \A i \in DOMAIN trace :
        trace[i].k = "platform" =>
            /\ trace[i].obj \notin prev.disposed
            /\ \A j \in 1..(i - 1) :
                   ~(trace[j].k = "dispose" /\ trace[j].obj = trace[i].obj)

====
